---- MODULE Spec2Model ----
(***************************************************************************)
(* GhostHuman: the humanization pipeline of src/lib/humanize.ts (rewrite,  *)
(* meaning check, one conditional stricter retry, local quality metrics),  *)
(* with the prompt builders of src/lib/promptTemplates.ts and the text     *)
(* metrics of src/lib/qualityChecks.ts.                                    *)
(*                                                                         *)
(* Representation.  Texts, prompts and collaborator replies are strings,   *)
(* read character by character with SubSeq.  JavaScript values coming out  *)
(* of JSON.parse are records [t |-> <type>, ...] (see the JSON section).   *)
(* Floating-point results that the code rounds to a fixed number of        *)
(* decimals are kept as scaled integers: readability and sentence variance *)
(* in tenths, lengthRatio in hundredths.                                   *)
(***************************************************************************)
EXTENDS Integers, Sequences, FiniteSets, TLC

(***************************************************************************)
(* Characters and the JavaScript string primitives the code uses           *)
(***************************************************************************)

\* The i-th character of s (1-based), "" outside the string.
CharAt(s, i) == IF i >= 1 /\ i <= Len(s) THEN SubSeq(s, i, i) ELSE ""

UpperLetters == "ABCDEFGHIJKLMNOPQRSTUVWXYZ"
LowerLetters == "abcdefghijklmnopqrstuvwxyz"
DigitChars == "0123456789"

CharsOf(s) == {SubSeq(s, i, i) : i \in 1..Len(s)}

\* The regular-expression classes \s, [a-z], \w and [aeiouy] over the
\* characters that occur in the model's texts.
WhiteSpace == {" ", "\t", "\n", "\r", "\f"}
LowerSet == CharsOf(LowerLetters)
UpperSet == CharsOf(UpperLetters)
DigitSet == CharsOf(DigitChars)
WordChars == LowerSet \cup UpperSet \cup DigitSet \cup {"_"}
IsSpace(c) == c \in WhiteSpace
IsDigit(c) == c \in DigitSet
IsWordChar(c) == c \in WordChars

\* The lower-case letter of each upper-case letter.
LowerOf ==
  [c \in UpperSet |->
     LET i == CHOOSE j \in 1..Len(UpperLetters) : SubSeq(UpperLetters, j, j) = c
     IN SubSeq(LowerLetters, i, i)]

LowerChar(c) == IF c \in UpperSet THEN LowerOf[c] ELSE c

Min(a, b) == IF a <= b THEN a ELSE b
Max(a, b) == IF a >= b THEN a ELSE b

\* The least i in lo..hi with P(i), and none when there is no such i.
FirstIn(lo, hi, P(_), none) ==
  IF \E i \in lo..hi : P(i)
    THEN CHOOSE i \in lo..hi : P(i) /\ \A j \in lo..(i - 1) : ~P(j)
    ELSE none

\* F(i) for the least i in lo..hi with F(i) # 0, and 0 when there is none.
FirstNonZero(lo, hi, F(_)) ==
  IF \E i \in lo..hi : F(i) # 0
    THEN F(FirstIn(lo, hi, LAMBDA i : F(i) # 0, lo))
    ELSE 0

\* The first position >= from of s whose character is not in class; the
\* position after the end of s when there is none.
SkipClass(s, from, class) ==
  LET P(i) == CharAt(s, i) \notin class
  IN FirstIn(from, Len(s), P, Max(from, Len(s) + 1))

\* The first position >= from of s whose character is in class; the position
\* after the end of s when there is none.
FindClass(s, from, class) ==
  LET P(i) == CharAt(s, i) \in class
  IN FirstIn(from, Len(s), P, Max(from, Len(s) + 1))

\* String.prototype.toLowerCase (the string is halved to keep the recursion
\* shallow).
RECURSIVE toLowerCase(_)
toLowerCase(s) ==
  IF Len(s) <= 1 THEN LowerChar(s)
  ELSE toLowerCase(SubSeq(s, 1, Len(s) \div 2))
         \o toLowerCase(SubSeq(s, Len(s) \div 2 + 1, Len(s)))

\* String.prototype.trim
trimStart(s) == SubSeq(s, SkipClass(s, 1, WhiteSpace), Len(s))

trimEnd(s) ==
  LET P(i) == /\ CharAt(s, i) \notin WhiteSpace
              /\ \A j \in (i + 1)..Len(s) : CharAt(s, j) \in WhiteSpace
  IN SubSeq(s, 1, FirstIn(1, Len(s), P, 0))

trim(s) == trimEnd(trimStart(s))

\* s.startsWith(p, i - 1): p occurs in s at the 1-based position i.
OccursAt(s, p, i) ==
  /\ i >= 1
  /\ i + Len(p) - 1 <= Len(s)
  /\ SubSeq(s, i, i + Len(p) - 1) = p

\* s.indexOf(p, from - 1) + 1: the first 1-based position >= from at which p
\* occurs, 0 when there is none.
indexOf(s, p, from) ==
  LET P(i) == OccursAt(s, p, i)
  IN FirstIn(from, Len(s) - Len(p) + 1, P, 0)

includes(s, p) == indexOf(s, p, 1) # 0

\* The characters of s that satisfy keep, in order (replace(/[^...]/g, "")).
RECURSIVE KeepChars(_, _)
KeepChars(s, keep) ==
  IF Len(s) <= 1 THEN (IF s \in keep THEN s ELSE "")
  ELSE KeepChars(SubSeq(s, 1, Len(s) \div 2), keep)
         \o KeepChars(SubSeq(s, Len(s) \div 2 + 1, Len(s)), keep)

\* Math.round(n / d) for n >= 0, d > 0: halves round up.
RoundDiv(n, d) == (2 * n + d) \div (2 * d)

(***************************************************************************)
(* promptTemplates.ts.  The wording of each instruction block is cut to    *)
(* its opening words and " [...]"; the structure of the template (which    *)
(* blocks are present, in which order, and where the inputs are spliced    *)
(* in) is that of the source.                                              *)
(***************************************************************************)

Tones == {"professional", "friendly", "confident"}
Strengths == {"light", "medium", "strong"}

TONE_INSTRUCTIONS(tone) ==
  CASE tone = "professional" -> "Maintain a polished, business-appropriate tone. [...]"
    [] tone = "friendly" -> "Use a warm, approachable tone. [...]"
    [] tone = "confident" -> "Write with authority and conviction. [...]"

STRENGTH_INSTRUCTIONS(strength) ==
  CASE strength = "light" -> "Make minimal changes. [...]"
    [] strength = "medium" -> "Restructure for natural flow while preserving the original organization. [...]"
    [] strength = "strong" -> "Substantially rewrite for maximum naturalness. [...]"

CORE_RULES ==
  "CORE RULES:\n"
  \o "1. PRESERVE ALL FACTUAL CONTENT [...]\n"
  \o "2. NEVER add information that wasn't in the original.\n"
  \o "3. NEVER remove key points or arguments from the original.\n"
  \o "4. Output ONLY the rewritten text [...]\n"

KEY_POINT_PRESERVATION ==
  "\nKEY POINT PRESERVATION: Pay extra attention to preserving every distinct argument, recommendation, and conclusion from the original. Do not merge or compress separate points."

\* config is [tone, strength, preserveKeyPoints].
buildSystemPrompt(config) ==
  "You are an expert writing editor [...]\n\n"
  \o CORE_RULES
  \o "\nTONE:\n" \o TONE_INSTRUCTIONS(config.tone) \o "\n"
  \o "\nREWRITE STRENGTH:\n" \o STRENGTH_INSTRUCTIONS(config.strength) \o "\n"
  \o "\nHUMANIZATION TECHNIQUES TO APPLY:\n- Vary sentence length deliberately [...]\n"
  \o (IF config.preserveKeyPoints THEN KEY_POINT_PRESERVATION ELSE "")

buildUserPrompt(txt) == "Rewrite the following text:\n\n" \o txt

buildEvaluatorPrompt(original, rewrittenText) ==
  "Compare the following original text and its rewritten version. Check if any key facts, claims, numbers, names, or arguments were lost, changed, or distorted in the rewrite.\n\n"
  \o "ORIGINAL:\n\"\"\"\n" \o original \o "\n\"\"\"\n\n"
  \o "REWRITTEN:\n\"\"\"\n" \o rewrittenText \o "\n\"\"\"\n\n"
  \o "Respond with a JSON object:\n{\n  \"meaningPreserved\": true/false,\n  \"issuesFound\": [\"list of specific issues, if any\"],\n  \"severity\": \"none\" | \"minor\" | \"major\"\n}\n\n"
  \o "If meaning is fully preserved, respond: {\"meaningPreserved\": true, \"issuesFound\": [], \"severity\": \"none\"}"


(***************************************************************************)
(* JavaScript values and JSON.parse.  A value is a record whose field t is *)
(* its typeof-like tag; each tag has its own payload field, so values of   *)
(* different types are different records.                                  *)
(*   undefined, null                                                       *)
(*   boolean  b |-> BOOLEAN                                                *)
(*   number   lit |-> the literal's txt, zero |-> whether its value is 0  *)
(*   string   s |-> the decoded txt                                       *)
(*   array    items |-> sequence of values                                 *)
(*   object   members |-> sequence of <<key, value>> in source order       *)
(* The parser follows the JSON grammar (ECMA-404); \b and \uXXXX escapes   *)
(* are accepted and kept undecoded in the string's txt.                   *)
(***************************************************************************)

JUndefined == [t |-> "undefined"]
JNull == [t |-> "null"]
JBool(b) == [t |-> "boolean", b |-> b]
JNum(lit, zero) == [t |-> "number", lit |-> lit, zero |-> zero]
JStr(s) == [t |-> "string", s |-> s]
JArr(items) == [t |-> "array", items |-> items]
JObj(members) == [t |-> "object", members |-> members]

JsonWhiteSpace == {" ", "\t", "\n", "\r"}
HexChars == CharsOf("0123456789abcdefABCDEF")

ParseFail == [ok |-> FALSE, val |-> JUndefined, next |-> 0]
ParseOk(v, n) == [ok |-> TRUE, val |-> v, next |-> n]

SkipWs(s, i) == SkipClass(s, i, JsonWhiteSpace)

\* The first position >= i whose character is not a digit.
SkipDigits(s, i) == SkipClass(s, i, DigitSet)

\* The parts of a number, -? (0 | [1-9][0-9]*) (.[0-9]+)? ([eE][+-]?[0-9]+)?,
\* each given the position where it starts and giving the position after
\* it, 0 when the number is malformed there or before.
DigitsEnd(s, i) == IF SkipDigits(s, i) = i THEN 0 ELSE SkipDigits(s, i)

IntegerEnd(s, i) == IF CharAt(s, i) = "0" THEN i + 1 ELSE DigitsEnd(s, i)

FractionEnd(s, i) ==
  IF i = 0 THEN 0
  ELSE IF CharAt(s, i) = "." THEN DigitsEnd(s, i + 1)
  ELSE i

ExponentEnd(s, i) ==
  IF i = 0 THEN 0
  ELSE IF CharAt(s, i) \in {"e", "E"}
    THEN DigitsEnd(s, IF CharAt(s, i + 1) \in {"+", "-"} THEN i + 2 ELSE i + 1)
  ELSE i

\* The number token from position i to before position i4, whose digits
\* before the exponent stand from i1 to before i3.
NumberToken(s, i, i1, i3, i4) ==
  IF i4 = 0 THEN ParseFail
  ELSE ParseOk(JNum(SubSeq(s, i, i4 - 1),
                    CharsOf(SubSeq(s, i1, i3 - 1)) \subseteq {"0", "."}), i4)

NumberMantissa(s, i, i1, i3) == NumberToken(s, i, i1, i3, ExponentEnd(s, i3))

NumberDigits(s, i, i1) == NumberMantissa(s, i, i1, FractionEnd(s, IntegerEnd(s, i1)))

ParseNumber(s, i) == NumberDigits(s, i, IF CharAt(s, i) = "-" THEN i + 1 ELSE i)

\* The text of a string literal whose opening quote is before position i0;
\* acc0 is the text decoded so far.  Plain characters are taken a run at a
\* time, up to position i, the next quote, backslash or control character.
RECURSIVE ParseStringFrom(_, _, _)
ParseStringRun(s, i0, i, acc0) ==
  LET acc == acc0 \o SubSeq(s, i0, i - 1)
      c == CharAt(s, i)
      e == CharAt(s, i + 1)
  IN IF c = "" \/ c \in {"\n", "\r", "\t", "\f"} THEN ParseFail
     ELSE IF c = "\"" THEN ParseOk(JStr(acc), i + 1)
     ELSE IF e = "u"
       THEN (IF i + 5 <= Len(s) /\ CharsOf(SubSeq(s, i + 2, i + 5)) \subseteq HexChars
               THEN ParseStringFrom(s, i + 6, acc \o SubSeq(s, i, i + 5))
               ELSE ParseFail)
     ELSE IF e \in {"\"", "\\", "/", "n", "r", "t", "f", "b"}
       THEN ParseStringFrom(s, i + 2,
              acc \o (CASE e = "n" -> "\n" [] e = "r" -> "\r" [] e = "t" -> "\t"
                         [] e = "f" -> "\f" [] e = "b" -> "\\b" [] OTHER -> e))
     ELSE ParseFail

ParseStringFrom(s, i0, acc0) ==
  ParseStringRun(s, i0, FindClass(s, i0, {"\"", "\\", "\n", "\r", "\t", "\f"}), acc0)

RECURSIVE ParseValue(_, _)
RECURSIVE ParseItems(_, _, _)
RECURSIVE ParseMembers(_, _, _)

\* After an item, at position j: ] ends the array more, a comma continues it.
ItemsNext(s, j, more) ==
  IF CharAt(s, j) = "]" THEN ParseOk(JArr(more), j + 1)
  ELSE IF CharAt(s, j) = "," THEN ParseItems(s, SkipWs(s, j + 1), more)
  ELSE ParseFail

ItemParsed(s, r, acc) ==
  IF ~r.ok THEN ParseFail ELSE ItemsNext(s, SkipWs(s, r.next), Append(acc, r.val))

\* value (ws , ws value)* ws ]   with the items parsed so far in acc.
ParseItems(s, i, acc) == ItemParsed(s, ParseValue(s, i), acc)

\* After a member, at position j: } ends the object more, a comma continues it.
MembersNext(s, j, more) ==
  IF CharAt(s, j) = "}" THEN ParseOk(JObj(more), j + 1)
  ELSE IF CharAt(s, j) = "," THEN ParseMembers(s, SkipWs(s, j + 1), more)
  ELSE ParseFail

MemberParsed(s, key, r, acc) ==
  IF ~r.ok THEN ParseFail
  ELSE MembersNext(s, SkipWs(s, r.next), Append(acc, << key, r.val >>))

MemberColon(s, key, c, acc) ==
  IF CharAt(s, c) = ":" THEN MemberParsed(s, key, ParseValue(s, SkipWs(s, c + 1)), acc)
  ELSE ParseFail

MemberKey(s, k, acc) ==
  IF ~k.ok THEN ParseFail ELSE MemberColon(s, k.val.s, SkipWs(s, k.next), acc)

\* string ws : ws value (ws , ws member)* ws }   with the members so far in acc.
ParseMembers(s, i, acc) ==
  IF CharAt(s, i) = "\"" THEN MemberKey(s, ParseStringFrom(s, i + 1, ""), acc)
  ELSE ParseFail

\* The object or array whose opening bracket is before position j, the
\* first position after it that is no white space.
ParseObject(s, j) ==
  IF CharAt(s, j) = "}" THEN ParseOk(JObj(<<>>), j + 1) ELSE ParseMembers(s, j, <<>>)

ParseArray(s, j) ==
  IF CharAt(s, j) = "]" THEN ParseOk(JArr(<<>>), j + 1) ELSE ParseItems(s, j, <<>>)

ParseLiteral(s, i, word, v) ==
  IF OccursAt(s, word, i) THEN ParseOk(v, i + Len(word)) ELSE ParseFail

\* The value that starts at position i (no leading white space).
ParseValue(s, i) ==
  LET c == CharAt(s, i)
  IN CASE c = "{" -> ParseObject(s, SkipWs(s, i + 1))
       [] c = "[" -> ParseArray(s, SkipWs(s, i + 1))
       [] c = "\"" -> ParseStringFrom(s, i + 1, "")
       [] c = "t" -> ParseLiteral(s, i, "true", JBool(TRUE))
       [] c = "f" -> ParseLiteral(s, i, "false", JBool(FALSE))
       [] c = "n" -> ParseLiteral(s, i, "null", JNull)
       [] c = "-" \/ IsDigit(c) -> ParseNumber(s, i)
       [] OTHER -> ParseFail

\* The outcome of JSON.parse(s) when its value has been parsed as r: s must
\* end, white space apart, where the value ends.
ParseOutcome(s, r) ==
  IF r.ok /\ SkipWs(s, r.next) = Len(s) + 1
    THEN [ok |-> TRUE, val |-> r.val]
    ELSE [ok |-> FALSE, val |-> JUndefined]

\* JSON.parse(s): [ok |-> TRUE, val |-> v], or [ok |-> FALSE] for a SyntaxError.
JSON_parse(s) == ParseOutcome(s, ParseValue(s, SkipWs(s, 1)))

\* Whether reading a property of v throws a TypeError.
PropertyThrows(v) == v.t \in {"null", "undefined"}

\* v.key for a value that is not null or undefined: the last member of that
\* name of an object, undefined for anything else (the keys read here are
\* no properties of arrays, strings, numbers or booleans).
GetProperty(v, key) ==
  IF v.t = "object" /\ \E i \in 1..Len(v.members) : v.members[i][1] = key
    THEN LET i == CHOOSE j \in 1..Len(v.members) :
                    /\ v.members[j][1] = key
                    /\ \A k \in (j + 1)..Len(v.members) : v.members[k][1] # key
         IN v.members[i][2]
    ELSE JUndefined

\* a ?? b
Nullish(a, b) == IF a.t \in {"null", "undefined"} THEN b ELSE a

\* !v
Not(v) ==
  CASE v.t \in {"null", "undefined"} -> TRUE
    [] v.t = "boolean" -> ~v.b
    [] v.t = "number" -> v.zero
    [] v.t = "string" -> v.s = ""
    [] OTHER -> FALSE


(***************************************************************************)
(* qualityChecks.ts                                                        *)
(***************************************************************************)

FILLER_PHRASES ==
  << "it is important to note that", "it should be noted that",
     "it is worth mentioning that", "in order to", "due to the fact that",
     "as a matter of fact", "at the end of the day", "in today's world",
     "in this day and age", "it goes without saying", "needless to say",
     "all things considered", "when all is said and done", "in the realm of",
     "in terms of", "with regard to", "with respect to", "on the other hand",
     "in light of the fact that", "for the purpose of", "in the event that",
     "at this point in time", "the fact of the matter is", "it is crucial to",
     "it is essential to", "it is imperative to", "plays a crucial role",
     "plays a vital role", "plays an important role", "serves as a testament",
     "serves as a reminder" >>

AI_TRANSITION_WORDS ==
  << "furthermore", "moreover", "additionally", "consequently", "nevertheless",
     "henceforth", "notwithstanding", "in conclusion", "to summarize",
     "in summary" >>

\* The first position >= i whose character is not white space.
SkipSpaces(s, i) == SkipClass(s, i, WhiteSpace)

\* The first position >= i whose character is not a \w character.
SkipWordChars(s, i) == SkipClass(s, i, WordChars)

\* text.split(/(?<=[.!?])\s+/), for the pieces from position start on: the
\* next separator is the first run of white space that follows a ., ! or ?.
RECURSIVE SplitAfterPunct(_, _)
SplitAfterPunct(s, start) ==
  LET P(j) == IsSpace(CharAt(s, j)) /\ CharAt(s, j - 1) \in {".", "!", "?"}
      i == FirstIn(start, Len(s), P, Len(s) + 1)
  IN IF i > Len(s) THEN << SubSeq(s, start, Len(s)) >>
     ELSE << SubSeq(s, start, i - 1) >> \o SplitAfterPunct(s, SkipSpaces(s, i))

\* text.split(/\s+/), for the pieces from position start on.
RECURSIVE SplitOnSpaces(_, _)
SplitOnSpaces(s, start) ==
  LET i == FindClass(s, start, WhiteSpace)
  IN IF i > Len(s) THEN << SubSeq(s, start, Len(s)) >>
     ELSE << SubSeq(s, start, i - 1) >> \o SplitOnSpaces(s, SkipSpaces(s, i))

\* .map((s) => s.trim())
RECURSIVE MapTrim(_)
MapTrim(seq) ==
  IF seq = <<>> THEN <<>> ELSE << trim(Head(seq)) >> \o MapTrim(Tail(seq))

\* .filter((s) => s.length > 0)
RECURSIVE FilterNonEmpty(_)
FilterNonEmpty(seq) ==
  IF seq = <<>> THEN <<>>
  ELSE (IF Head(seq) # "" THEN << Head(seq) >> ELSE <<>>) \o FilterNonEmpty(Tail(seq))

splitSentences(txt) == FilterNonEmpty(MapTrim(SplitAfterPunct(txt, 1)))

SplitWords(txt) == FilterNonEmpty(SplitOnSpaces(txt, 1))

countWords(txt) == Len(SplitWords(txt))

\* word.replace(/(?:[^laeiouy]es|ed|[^laeiouy]e)$/, ""): the leftmost start
\* at which an alternative reaches the end of the word.
LOrVowel == CharsOf("laeiouy")

StripSilentEnding(w) ==
  LET n == Len(w)
      notLVowel(c) == c # "" /\ c \notin LOrVowel
  IN IF n >= 3 /\ notLVowel(CharAt(w, n - 2)) /\ SubSeq(w, n - 1, n) = "es"
       THEN SubSeq(w, 1, n - 3)
     ELSE IF n >= 2 /\ SubSeq(w, n - 1, n) = "ed"
       THEN SubSeq(w, 1, n - 2)
     ELSE IF n >= 2 /\ notLVowel(CharAt(w, n - 1)) /\ CharAt(w, n) = "e"
       THEN SubSeq(w, 1, n - 2)
     ELSE w

Vowels == CharsOf("aeiouy")

\* word.match(/[aeiouy]{1,2}/g).length from position i on: each match takes
\* one vowel, and the next one too when it is a vowel.
RECURSIVE CountVowelGroups(_, _)
CountVowelGroups(w, i) ==
  IF i > Len(w) THEN 0
  ELSE IF CharAt(w, i) \in Vowels
    THEN 1 + CountVowelGroups(w, IF CharAt(w, i + 1) \in Vowels THEN i + 2 ELSE i + 1)
    ELSE CountVowelGroups(w, i + 1)

\* matches ? matches.length : 1
MatchesOrOne(matches) == IF matches > 0 THEN matches ELSE 1

\* word.replace(/^y/, "")
StripLeadingY(w) == IF CharAt(w, 1) = "y" THEN Tail(w) ELSE w

\* countSyllables after its first statement, w being the lower-cased word
\* without its non-letters.
SyllablesOfLetters(w) ==
  IF Len(w) <= 3 THEN 1
  ELSE MatchesOrOne(CountVowelGroups(StripLeadingY(StripSilentEnding(w)), 1))

countSyllables(word) == SyllablesOfLetters(KeepChars(toLowerCase(word), LowerSet))

RECURSIVE SumSyllables(_)
SumSyllables(words) ==
  IF words = <<>> THEN 0 ELSE countSyllables(Head(words)) + SumSyllables(Tail(words))

\* FleschScore as it would be if, in place of the two early returns, the
\* divisors were floored at 1.
FleschScoreFlooring(sentences, words, totalSyllables) ==
  LET num == 206835 * Max(sentences, 1) * Max(words, 1) - 1015 * words * Max(words, 1)
               - 84600 * totalSyllables * Max(sentences, 1)
      den == 1000 * Max(sentences, 1) * Max(words, 1)
  IN IF num <= 0 THEN 0
     ELSE IF num >= 100 * den THEN 1000
     ELSE RoundDiv(10 * num, den)

\* The Flesch reading-ease score in tenths, clamped to 0..100 and rounded to
\* one decimal.  With s sentences, w words and y syllables the score is
\* (206835 s w - 1015 w w - 84600 y s) / (1000 s w).
FleschScore(sentences, words, totalSyllables) ==
  LET num == 206835 * sentences * words - 1015 * words * words
               - 84600 * totalSyllables * sentences
      den == 1000 * sentences * words
  IN IF sentences = 0 THEN 0
     ELSE IF words = 0 THEN 0
     ELSE IF num <= 0 THEN 0
     ELSE IF num >= 100 * den THEN 1000
     ELSE RoundDiv(10 * num, den)

fleschKincaidScore(txt) ==
  FleschScore(Len(splitSentences(txt)), countWords(txt), SumSyllables(SplitWords(txt)))

RECURSIVE MapCountWords(_)
MapCountWords(seq) ==
  IF seq = <<>> THEN <<>> ELSE << countWords(Head(seq)) >> \o MapCountWords(Tail(seq))

RECURSIVE SumSeq(_)
SumSeq(seq) == IF seq = <<>> THEN 0 ELSE Head(seq) + SumSeq(Tail(seq))

RECURSIVE SumSquares(_)
SumSquares(seq) == IF seq = <<>> THEN 0 ELSE Head(seq) * Head(seq) + SumSquares(Tail(seq))

\* Math.round(10 * Math.sqrt(v / (n * n))) for integers v >= 0, n > 0: the
\* largest r with r = 0 or ((2r - 1) n)^2 <= 400 v, searched upwards from r.
RECURSIVE RoundSqrtTenths(_, _, _)
RoundSqrtTenths(v, n, r) ==
  IF (2 * r + 1) * n * (2 * r + 1) * n <= 400 * v
    THEN RoundSqrtTenths(v, n, r + 1)
    ELSE r

\* The population standard deviation of the word counts lengths, in tenths:
\* the variance is (n * sum(l^2) - sum(l)^2) / n^2.
StdDevTenths(lengths) ==
  LET n == Len(lengths)
  IN IF n < 2 THEN 0
     ELSE RoundSqrtTenths(n * SumSquares(lengths) - SumSeq(lengths) * SumSeq(lengths), n, 0)

sentenceLengthVariance(txt) == StdDevTenths(MapCountWords(splitSentences(txt)))

BE_VERBS == {"is", "are", "was", "were", "be", "been", "being"}
IRREGULAR_PARTICIPLES ==
  {"written", "shown", "known", "made", "done", "given", "taken", "seen", "found",
   "built", "told", "sent", "held", "kept", "brought", "thought", "said"}

\* (\w+ed|written|shown|...) matched against part, a whole run of \w
\* characters.
IsParticiple(part) ==
  \/ Len(part) >= 3 /\ SubSeq(part, Len(part) - 1, Len(part)) = "ed"
  \/ part \in IRREGULAR_PARTICIPLES

\* The be-verbs that stand at position p of low with white space after them.
BeVerbsAt(low, p) ==
  {v \in BE_VERBS : OccursAt(low, v, p) /\ IsSpace(CharAt(low, p + Len(v)))}

\* The participle after the white space at position q: the position of its
\* last character, 0 when the run of \w characters there is no participle.
ParticipleAt(low, q) ==
  IF IsParticiple(SubSeq(low, q, SkipWordChars(low, q) - 1))
    THEN SkipWordChars(low, q) - 1
    ELSE 0

\* A match of passivePattern that starts at position p of low, a lower-cased
\* sentence (the pattern ignores case): the position of its last character,
\* 0 when there is none.  The be-verb stands at a word boundary and is
\* followed by white space; the participle is the whole run of \w characters
\* after the white space (the closing \b ends it there).
PassiveMatchAt(low, p) ==
  IF IsWordChar(CharAt(low, p - 1)) \/ BeVerbsAt(low, p) = {} THEN 0
  ELSE ParticipleAt(low, SkipSpaces(low, p + Len(CHOOSE v \in BeVerbsAt(low, p) : TRUE)))

\* The leftmost match starting at a position >= p: the position of its last
\* character, 0 when there is none.
PassiveSearch(low, p) == FirstNonZero(p, Len(low), LAMBDA i : PassiveMatchAt(low, i))

\* What test() returns and leaves in lastIndex, for a search that ended at
\* position end (0: no match).
TestOutcome(end) == [matched |-> end # 0, lastIndex |-> end]

\* passivePattern.test(s) with passivePattern.lastIndex = lastIndex before
\* the call: a global regular expression resumes the search at lastIndex,
\* leaves lastIndex at the end of the match, and resets it to 0 on failure.
PassiveTest(s, lastIndex) ==
  TestOutcome(IF lastIndex > Len(s) THEN 0 ELSE PassiveSearch(toLowerCase(s), lastIndex + 1))

\* sentences.filter((s) => passivePattern.test(s)).length, the one pattern
\* object carrying its lastIndex from each sentence to the next.
RECURSIVE PassiveCount(_, _)
PassiveCountFrom(r, rest) ==
  (IF r.matched THEN 1 ELSE 0) + PassiveCount(rest, r.lastIndex)

PassiveCount(sentences, lastIndex) ==
  IF sentences = <<>> THEN 0
  ELSE PassiveCountFrom(PassiveTest(Head(sentences), lastIndex), Tail(sentences))

PassivePercent(sentences) ==
  IF Len(sentences) = 0 THEN 0
  ELSE RoundDiv(PassiveCount(sentences, 0) * 100, Len(sentences))

passiveVoicePercentage(txt) == PassivePercent(splitSentences(txt))

\* The occurrences of phrase found by the indexOf loop from position from.
RECURSIVE CountOccurrences(_, _, _)
CountOccurrences(lower, phrase, from) ==
  LET idx == indexOf(lower, phrase, from)
  IN IF idx = 0 THEN 0 ELSE 1 + CountOccurrences(lower, phrase, idx + Len(phrase))

\* lower.match(new RegExp("\\b" + word + "\\b", "gi")).length from position p.
RECURSIVE CountWholeWord(_, _, _)
CountWholeWord(lower, word, p) ==
  LET P(i) == /\ OccursAt(lower, word, i)
              /\ ~IsWordChar(CharAt(lower, i - 1))
              /\ ~IsWordChar(CharAt(lower, i + Len(word)))
      start == FirstIn(p, Len(lower), P, 0)
  IN IF start = 0 THEN 0
     ELSE 1 + CountWholeWord(lower, word, start + Len(word))

RECURSIVE SumFillers(_, _)
SumFillers(lower, phrases) ==
  IF phrases = <<>> THEN 0
  ELSE CountOccurrences(lower, Head(phrases), 1) + SumFillers(lower, Tail(phrases))

RECURSIVE SumTransitions(_, _)
SumTransitions(lower, words) ==
  IF words = <<>> THEN 0
  ELSE CountWholeWord(lower, Head(words), 1) + SumTransitions(lower, Tail(words))

\* countFillerPhrases as it would be if it searched the text as written.
countFillerPhrasesAsWritten(txt) ==
  SumFillers(txt, FILLER_PHRASES) + SumTransitions(txt, AI_TRANSITION_WORDS)

countFillerPhrases(txt) ==
  LET lower == toLowerCase(txt)
  IN SumFillers(lower, FILLER_PHRASES) + SumTransitions(lower, AI_TRANSITION_WORDS)

\* OverallScore as it would be if it started at 60 and were not clamped.
OverallScoreFromSixty(rB, rA, lr, vB, vA, pB, pA, fB, fA) ==
  60
  + (IF rA > rB THEN 10 ELSE IF rA < rB - 100 THEN -5 ELSE 0)
  + (IF vA > vB THEN 10 ELSE 0)
  + (IF pA < pB THEN 10 ELSE IF pA > pB THEN -5 ELSE 0)
  + (IF fA < fB THEN 10 ELSE 0)
  + (IF lr >= 70 /\ lr <= 110 THEN 10 ELSE IF lr < 50 \/ lr > 150 THEN -10 ELSE 0)

\* OverallScore as it would be without the penalty for more passive voice.
OverallScoreNoPassivePenalty(rB, rA, lr, vB, vA, pB, pA, fB, fA) ==
  Max(0, Min(100,
    50
    + (IF rA > rB THEN 10 ELSE IF rA < rB - 100 THEN -5 ELSE 0)
    + (IF vA > vB THEN 10 ELSE 0)
    + (IF pA < pB THEN 10 ELSE 0)
    + (IF fA < fB THEN 10 ELSE 0)
    + (IF lr >= 70 /\ lr <= 110 THEN 10 ELSE IF lr < 50 \/ lr > 150 THEN -10 ELSE 0)))

\* What the comparison of the readability scores (in tenths) adds to the
\* overall score.
ReadabilityTerm(rB, rA) == IF rA > rB THEN 10 ELSE IF rA < rB - 100 THEN -5 ELSE 0

\* The overall score from the nine measurements (readability in tenths,
\* lengthRatio in hundredths).
OverallScore(rB, rA, lr, vB, vA, pB, pA, fB, fA) ==
  Max(0, Min(100,
    50
    + ReadabilityTerm(rB, rA)
    + (IF vA > vB THEN 10 ELSE 0)
    + (IF pA < pB THEN 10 ELSE IF pA > pB THEN -5 ELSE 0)
    + (IF fA < fB THEN 10 ELSE 0)
    + (IF lr >= 70 /\ lr <= 110 THEN 10 ELSE IF lr < 50 \/ lr > 150 THEN -10 ELSE 0)))

\* The object computeMetrics returns, from the nine measurements.
QualityMetrics(rB, rA, lr, vB, vA, pB, pA, fB, fA) ==
  [ readabilityBefore |-> rB,
    readabilityAfter |-> rA,
    readabilityImproved |-> rA >= rB,
    lengthRatio |-> lr,
    sentenceVarianceBefore |-> vB,
    sentenceVarianceAfter |-> vA,
    passiveVoiceBefore |-> pB,
    passiveVoiceAfter |-> pA,
    fillerCountBefore |-> fB,
    fillerCountAfter |-> fA,
    overallScore |-> OverallScore(rB, rA, lr, vB, vA, pB, pA, fB, fA) ]

\* LengthRatio as it would be if a zero word count were avoided by adding
\* one to the divisor.
LengthRatioPlusOne(wordsBefore, wordsAfter) == RoundDiv(wordsAfter * 100, wordsBefore + 1)

\* Math.round((wordsAfter / Math.max(wordsBefore, 1)) * 100) / 100, in
\* hundredths.
LengthRatio(wordsBefore, wordsAfter) == RoundDiv(wordsAfter * 100, Max(wordsBefore, 1))

lengthRatio(original, rewrittenText) ==
  LengthRatio(countWords(original), countWords(rewrittenText))

computeMetrics(original, rewrittenText) ==
  QualityMetrics(fleschKincaidScore(original), fleschKincaidScore(rewrittenText),
                 lengthRatio(original, rewrittenText),
                 sentenceLengthVariance(original), sentenceLengthVariance(rewrittenText),
                 passiveVoicePercentage(original), passiveVoicePercentage(rewrittenText),
                 countFillerPhrases(original), countFillerPhrases(rewrittenText))

(***************************************************************************)
(* The generation collaborator.  A reply to openai.chat.completions.create *)
(* either rejects with an error or resolves to a response whose            *)
(* choices[0]?.message?.content is a string or is missing (null).          *)
(***************************************************************************)

NoReply == [kind |-> "pending"]
Throws(message) == [kind |-> "throw", message |-> message]
Returns(content) == [kind |-> "ok", content |-> content]

\* How many of the sample texts and sample rewrites the model draws from.
NumTexts == 2
NumRewrites == 2

SampleTexts ==
  << "In order to win, it is important to note that mistakes were made. Furthermore, we learn.",
     "The cat sat.",
     "The report was written by the team. It was shown to everyone! Nobody knows.",
     "Moreover, the plan is done. Is it approved? It plays a vital role." >>

SampleRewrites ==
  << "To win, own the mistakes you made. We learn.",
     "\n  Mistakes were made. The cake was baked by us all, in order to win.\n",
     "the cat sat on the mat and it was seen",
     "" >>

Texts == {SampleTexts[i] : i \in 1..Min(NumTexts, Len(SampleTexts))}

AllOptions ==
  [tone : Tones, strength : Strengths, preserveKeyPoints : BOOLEAN]

\* The options the calls of the model are made with: tone and strength only
\* select an instruction block of the system prompt, so each is drawn once,
\* with both values of preserveKeyPoints.
Options ==
  {o \in AllOptions :
     <<o.tone, o.strength>> \in
       {<<"professional", "light">>, <<"friendly", "medium">>, <<"confident", "strong">>}}

ServiceErrors == {"Incorrect API key provided.", "Connection error."}

RewriteReplies ==
  {Throws(m) : m \in ServiceErrors}
    \cup {Returns(JStr(SampleRewrites[i])) : i \in 1..Min(NumRewrites, Len(SampleRewrites))}
    \cup {Returns(JNull)}

\* The backquote character (the lexer pairs a backquote in a string literal
\* with a following quote), and the three of them that fence a code block.
BackQuote == SubSeq("`'", 1, 1)
FENCE == BackQuote \o BackQuote \o BackQuote

VerdictPreservedNone ==
  "{\"meaningPreserved\": true, \"issuesFound\": [], \"severity\": \"none\"}"
VerdictLostMajor ==
  "{\"meaningPreserved\": false, \"issuesFound\": [\"A number was changed.\"], \"severity\": \"major\"}"
VerdictLostMinor ==
  "{\"meaningPreserved\": false, \"issuesFound\": [\"Slightly rephrased.\"], \"severity\": \"minor\"}"
VerdictPreservedMajor ==
  "{\"meaningPreserved\": true, \"issuesFound\": [], \"severity\": \"major\"}"
VerdictOnlySeverityMajor == "{\"severity\": \"major\"}"
VerdictOnlyLost == "{\"meaningPreserved\": false}"
VerdictZeroMajor ==
  "{\"meaningPreserved\": 0, \"issuesFound\": \"a claim was dropped\", \"severity\": \"major\"}"
VerdictProse == "The meaning is preserved."
VerdictCutOff == "{\"meaningPreserved\": false, \"issuesFound\": [\"A number was chan"
VerdictNull == "null"

\* Verdict objects inside a code fence: a json fence on lines of its own, a
\* bare fence on lines of its own, and a json fence without line breaks.
FencedLostMajor == FENCE \o "json\n" \o VerdictLostMajor \o "\n" \o FENCE
FencedLostMinor == FENCE \o "\n" \o VerdictLostMinor \o "\n" \o FENCE
FencedPreservedMajor == FENCE \o "json" \o VerdictPreservedMajor \o FENCE

\* What the collaborator may answer to a meaning check: the verdict objects
\* above, bare or inside a code fence, text that is no JSON, the JSON
\* value null, a response without content, and a failure of the call.
EvaluatorReplies ==
  {Throws(m) : m \in ServiceErrors}
    \cup {Returns(JStr(c)) : c \in
            { VerdictPreservedNone, VerdictLostMajor, VerdictLostMinor,
              VerdictPreservedMajor, VerdictOnlySeverityMajor, VerdictOnlyLost,
              VerdictZeroMajor,
              VerdictProse, VerdictCutOff, VerdictNull,
              FencedLostMajor, FencedLostMinor, FencedPreservedMajor }}
    \cup {Returns(JNull)}

(***************************************************************************)
(* humanize.ts                                                             *)
(***************************************************************************)

VARIABLES
  pc,            \* where the humanize call stands
  text,          \* humanize's argument text
  options,       \* humanize's argument options
  rewritten,     \* humanize's local rewritten
  meaningCheck,  \* humanize's local meaningCheck
  retried,       \* humanize's local retried
  result,        \* the HumanizeResult the call returned, if it has
  error,         \* the error the call rejected with, if it has
  calls          \* the calls of callRewrite and checkMeaning so far, in order

vars == << pc, text, options, rewritten, meaningCheck, retried, result, error, calls >>

\* The state around humanize: the request the POST handler of route.ts is
\* serving and its response, and, for computeMetrics called on its own, its
\* first and latest call and the lastIndex that the filter of the latest
\* passiveVoicePercentage call left in its pattern.
VARIABLES request, response, firstMetrics, lastMetrics, patternLeft

\* Two humanize calls in progress at once, and the state of the page
\* component of page.tsx; and countFillerPhrases called on its own.
VARIABLES running, page, fillerCall

routeVars == << request, response >>
metricsVars == << firstMetrics, lastMetrics, patternLeft >>
otherVars == << running, page, fillerCall >>
allVars == << vars, routeVars, metricsVars, otherVars >>

NoRequest == [kind |-> "none"]
NoResponse == [status |-> 0]
NoMetricsCall == [called |-> FALSE]

NoOptions == [tone |-> "", strength |-> "", preserveKeyPoints |-> FALSE]
NoVerdict == [preserved |-> JUndefined, issues |-> JUndefined, severity |-> JUndefined]
NoResult == [returned |-> FALSE]
NoError == [thrown |-> FALSE]

\* What a call of callRewrite or checkMeaning has given its caller so far.
NoOutcome == [kind |-> "pending"]
Returned(value) == [kind |-> "returned", value |-> value]
Rejected(message) == [kind |-> "rejected", message |-> message]

CRITICAL_INSTRUCTION ==
  "\n\nCRITICAL: A previous rewrite lost meaning. Be extremely careful to preserve every single fact, number, and claim from the original. Do not omit anything."

\* RewriteConfig as it would be if stricter did not force preserveKeyPoints.
RewriteConfigAsPassed(opts, stricter) == opts

\* The config callRewrite hands to buildSystemPrompt.
RewriteConfig(opts, stricter) ==
  [opts EXCEPT !.preserveKeyPoints = opts.preserveKeyPoints \/ stricter]

\* The call callRewrite(txt, opts, stricter) up to its await: its
\* arguments, its config and the two messages it sends.
callRewrite(txt, opts, stricter) ==
  [ op |-> "rewrite",
    text |-> txt,
    options |-> opts,
    stricter |-> stricter,
    config |-> RewriteConfig(opts, stricter),
    system |-> buildSystemPrompt(RewriteConfig(opts, stricter))
                 \o (IF stricter THEN CRITICAL_INSTRUCTION ELSE ""),
    user |-> buildUserPrompt(txt),
    reply |-> NoReply,
    outcome |-> NoOutcome ]

\* What callRewrite returns for a response:
\* response.choices[0]?.message?.content?.trim() ?? "".
RewriteOutput(reply) ==
  IF reply.kind = "ok" /\ reply.content.t = "string" THEN trim(reply.content.s) ELSE ""

\* RewriteRejects as it would be if a failed rewrite call were swallowed (and
\* an empty rewrite used in its place).
RewriteNeverRejects(reply) == FALSE

\* Whether the awaited rewrite call rejects, which callRewrite and humanize
\* let propagate.
RewriteRejects(reply) == reply.kind = "throw"

EVALUATOR_SYSTEM ==
  "You are a precise text comparison tool. Respond only with valid JSON."

\* The call checkMeaning(original, rewrittenText) up to its await.
checkMeaning(original, rewrittenText) ==
  [ op |-> "check",
    original |-> original,
    rewritten |-> rewrittenText,
    system |-> EVALUATOR_SYSTEM,
    user |-> buildEvaluatorPrompt(original, rewrittenText),
    reply |-> NoReply,
    outcome |-> NoOutcome ]

\* The position after the fence that starts at position i of raw: the
\* pattern takes json and one newline with the fence when they follow it.
FenceEnd(raw, i) ==
  IF OccursAt(raw, FENCE \o "json", i)
    THEN (IF CharAt(raw, i + 7) = "\n" THEN i + 8 ELSE i + 7)
    ELSE i + 3

\* raw.replace(/FENCEjson\n?|FENCE/g, "") from position from on, FENCE
\* standing for the three backquotes of the pattern; i is the position of
\* the next fence, 0 when there is none.
RECURSIVE StripFences(_, _)
StripNextFence(raw, from, i) ==
  IF i = 0 THEN SubSeq(raw, from, Len(raw))
  ELSE SubSeq(raw, from, i - 1) \o StripFences(raw, FenceEnd(raw, i))

\* StripFences as it would be if the reply were parsed as it came.
StripFencesKept(raw, from) == SubSeq(raw, from, Len(raw))

StripFences(raw, from) == StripNextFence(raw, from, indexOf(raw, FENCE, from))

\* The catch block's verdict as it would be if checkMeaning failed closed.
FailClosedVerdict ==
  [preserved |-> JBool(FALSE), issues |-> JArr(<<>>), severity |-> JStr("major")]

\* The verdict of checkMeaning's catch block.
DefaultVerdict ==
  [preserved |-> JBool(TRUE), issues |-> JArr(<<>>), severity |-> JStr("none")]

\* VerdictFrom as it would be if an object that lacks a field were replaced
\* by the defaults as a whole.
VerdictFromWhole(parsed) ==
  IF PropertyThrows(parsed) THEN DefaultVerdict
  ELSE IF \/ GetProperty(parsed, "meaningPreserved") \in {JUndefined, JNull}
          \/ GetProperty(parsed, "issuesFound") \in {JUndefined, JNull}
          \/ GetProperty(parsed, "severity") \in {JUndefined, JNull}
    THEN DefaultVerdict
  ELSE [ preserved |-> GetProperty(parsed, "meaningPreserved"),
         issues |-> GetProperty(parsed, "issuesFound"),
         severity |-> GetProperty(parsed, "severity") ]

\* The object checkMeaning builds from the parsed reply, which throws (and
\* so gives the catch block's verdict) when parsed is null.
VerdictFrom(parsed) ==
  IF PropertyThrows(parsed) THEN DefaultVerdict
  ELSE [ preserved |-> Nullish(GetProperty(parsed, "meaningPreserved"), JBool(TRUE)),
         issues |-> Nullish(GetProperty(parsed, "issuesFound"), JArr(<<>>)),
         severity |-> Nullish(GetProperty(parsed, "severity"), JStr("none")) ]

\* The outcome of JSON.parse as checkMeaning uses it.
VerdictOfParse(parse) == IF parse.ok THEN VerdictFrom(parse.val) ELSE DefaultVerdict

\* response.choices[0]?.message?.content?.trim() ?? "{}"
RawVerdict(reply) == IF reply.content.t = "string" THEN trim(reply.content.s) ELSE "{}"

\* What checkMeaning returns for a reply: the parsed verdict with its
\* defaults, or the catch block's verdict when the call, JSON.parse or the
\* property reads throw.
MeaningVerdict(reply) ==
  IF reply.kind = "throw" THEN DefaultVerdict
  ELSE VerdictOfParse(JSON_parse(trim(StripFences(RawVerdict(reply), 1))))

\* What the rewrite calls of the model can return.
RewriteOutputs == {RewriteOutput(reply) : reply \in {r \in RewriteReplies : r.kind = "ok"}}

\* computeMetrics for each pair of texts of the model, evaluated once.
MetricsMemo == [o \in Texts |-> [r \in RewriteOutputs |-> computeMetrics(o, r)]]

computeMetricsOf(original, rewrittenText) ==
  IF original \in Texts /\ rewrittenText \in RewriteOutputs
    THEN MetricsMemo[original][rewrittenText]
    ELSE computeMetrics(original, rewrittenText)

\* ShouldRetry as it would be if the condition named the severity "minor".
ShouldRetryOnMinor(verdict) == Not(verdict.preserved) /\ verdict.severity = JStr("minor")

\* if (!meaningCheck.preserved && meaningCheck.severity === "major")
ShouldRetry(verdict) == Not(verdict.preserved) /\ verdict.severity = JStr("major")

\* AfterCheck as it would be with a loop in place of the if statement:
\* rewriting again until the verdict no longer asks for it.
AfterCheckUntilAccepted(stage, verdict) ==
  IF ShouldRetry(verdict) THEN "RetryRewriting" ELSE "Done"

\* AfterCheck as it would be if every check of severity major were retried.
AfterCheckWhileMajor(stage, verdict) ==
  IF verdict.severity = JStr("major") THEN "RetryRewriting" ELSE "Done"

\* AfterCheck as it would be if humanize awaited the check again while it
\* gets the fallback verdict of a failed check.
AfterCheckAwaitingVerdict(stage, verdict) ==
  IF verdict = DefaultVerdict THEN stage
  ELSE IF stage = "CheckingMeaning" /\ ShouldRetry(verdict) THEN "RetryRewriting"
  ELSE "Done"

\* Where humanize goes when a meaning check has returned: the if statement
\* follows the first check only, and has no loop.
AfterCheck(stage, verdict) ==
  IF stage = "CheckingMeaning" /\ ShouldRetry(verdict) THEN "RetryRewriting" ELSE "Done"

\* RetriedAfter as it would be if humanize never set retried.
RetriedNever(stage) == FALSE

\* The value of retried once the check of that stage has returned.
RetriedAfter(stage) == stage = "RetryCheckingMeaning"

\* HumanizeResult as it would be with computeMetrics called on its arguments
\* in the wrong order.
HumanizeResultMetricsSwapped(txt, rewrittenText, verdict, didRetry) ==
  [ returned |-> TRUE,
    original |-> txt,
    rewritten |-> rewrittenText,
    metrics |-> computeMetricsOf(rewrittenText, txt),
    meaningCheck |-> [ preserved |-> verdict.preserved,
                       issues |-> verdict.issues,
                       severity |-> verdict.severity ],
    retried |-> didRetry ]

\* The object humanize returns.
HumanizeResult(txt, rewrittenText, verdict, didRetry) ==
  [ returned |-> TRUE,
    original |-> txt,
    rewritten |-> rewrittenText,
    metrics |-> computeMetricsOf(txt, rewrittenText),
    meaningCheck |-> [ preserved |-> verdict.preserved,
                       issues |-> verdict.issues,
                       severity |-> verdict.severity ],
    retried |-> didRetry ]

\* The log with the reply to its last call and what that call gave back.
Answer(log, reply, outcome) ==
  [log EXCEPT ![Len(log)].reply = reply, ![Len(log)].outcome = outcome]

\* No humanize call has been made.
HumanizeIdle ==
  /\ pc = "Idle"
  /\ text = ""
  /\ options = NoOptions
  /\ rewritten = ""
  /\ meaningCheck = NoVerdict
  /\ retried = FALSE
  /\ result = NoResult
  /\ error = NoError
  /\ calls = <<>>

\* No request has reached the route.
RouteIdle == request = NoRequest /\ response = NoResponse

\* computeMetrics has not been called on its own.
MetricsIdle ==
  /\ firstMetrics = NoMetricsCall
  /\ lastMetrics = NoMetricsCall
  /\ patternLeft = 0

\* The two callers whose humanize calls may be in progress at once.
Callers == {1, 2}

\* The locals of one activation of humanize before its first await returns.
NoFrame ==
  [ text |-> "", options |-> NoOptions, rewritten |-> "",
    meaningCheck |-> NoVerdict, retried |-> FALSE ]

\* A caller that has not called humanize: its arguments, how many
\* collaborator calls its humanize call has made, the replies it has got, and
\* whether the other call ran on while this one stood at an await.
NotCalled ==
  [ pc |-> "Idle", text |-> "", options |-> NoOptions, sent |-> 0,
    replies |-> <<>>, overlapped |-> FALSE, result |-> NoResult, error |-> NoError ]

\* Neither caller has called humanize.
PairIdle ==
  running = [at |-> [c \in Callers |-> NotCalled], frame |-> [c \in Callers |-> NoFrame]]

\* The state of the page component when it is mounted: the initial values
\* of its useState hooks, and no fetch under way.
InitialPage ==
  [ text |-> "", tone |-> "professional", strength |-> "medium",
    preserveKeyPoints |-> TRUE, result |-> JNull, loading |-> FALSE,
    error |-> JNull, feedback |-> JNull, copied |-> FALSE,
    flights |-> <<>>, cleared |-> FALSE ]

PageIdle == page = InitialPage

\* countFillerPhrases has not been called on its own.
FillerIdle == fillerCall = [called |-> FALSE]

Init == HumanizeIdle /\ RouteIdle /\ MetricsIdle /\ PairIdle /\ PageIdle /\ FillerIdle

\* humanize(txt, opts) is called and runs to its first await: the first
\* rewrite request is out.
HumanizeCalled(txt, opts) ==
  /\ pc = "Idle"
  /\ pc' = "Rewriting"
  /\ text' = txt
  /\ options' = opts
  /\ calls' = << callRewrite(txt, opts, FALSE) >>
  /\ UNCHANGED << rewritten, meaningCheck, retried, result, error >>

\* The awaited rewrite call rejects: the error leaves callRewrite and
\* humanize, which catch nothing.
RewriteThrows(reply) ==
  /\ pc \in {"Rewriting", "RetryRewriting"}
  /\ RewriteRejects(reply)
  /\ pc' = "Failed"
  /\ error' = [thrown |-> TRUE, message |-> reply.message]
  /\ calls' = Answer(calls, reply, Rejected(reply.message))
  /\ UNCHANGED << text, options, rewritten, meaningCheck, retried, result >>

\* RewriteReturns as it would be if the meaning check were started with the
\* value rewritten had before the rewrite call returned.
RewriteReturnsCheckingStale(reply) ==
  /\ pc \in {"Rewriting", "RetryRewriting"}
  /\ ~RewriteRejects(reply)
  /\ rewritten' = RewriteOutput(reply)
  /\ calls' = Append(Answer(calls, reply, Returned(rewritten')),
                     checkMeaning(text, rewritten))
  /\ pc' = IF pc = "Rewriting" THEN "CheckingMeaning" ELSE "RetryCheckingMeaning"
  /\ UNCHANGED << text, options, meaningCheck, retried, result, error >>

\* The awaited rewrite call resolves: rewritten is assigned and humanize
\* runs on to the await of checkMeaning(text, rewritten).
RewriteReturns(reply) ==
  /\ pc \in {"Rewriting", "RetryRewriting"}
  /\ ~RewriteRejects(reply)
  /\ rewritten' = RewriteOutput(reply)
  /\ calls' = Append(Answer(calls, reply, Returned(rewritten')),
                     checkMeaning(text, rewritten'))
  /\ pc' = IF pc = "Rewriting" THEN "CheckingMeaning" ELSE "RetryCheckingMeaning"
  /\ UNCHANGED << text, options, meaningCheck, retried, result, error >>

\* The awaited checkMeaning settles (it never rejects): meaningCheck and
\* retried are assigned; then either the stricter rewrite request goes out,
\* or the metrics are computed and the result is returned.
CheckReturns(reply) ==
  /\ pc \in {"CheckingMeaning", "RetryCheckingMeaning"}
  /\ meaningCheck' = MeaningVerdict(reply)
  /\ retried' = RetriedAfter(pc)
  /\ pc' = AfterCheck(pc, meaningCheck')
  /\ IF pc' = "RetryRewriting"
       THEN /\ calls' = Append(Answer(calls, reply, Returned(meaningCheck')),
                               callRewrite(text, options, TRUE))
            /\ result' = result
       ELSE /\ calls' = Answer(calls, reply, Returned(meaningCheck'))
            /\ result' = HumanizeResult(text, rewritten, meaningCheck', retried')
  /\ UNCHANGED << text, options, rewritten, error >>

\* humanize called on its own, with any text and options.
Next ==
  \/ \E txt \in Texts, opts \in Options :
       HumanizeCalled(txt, opts) /\ UNCHANGED << routeVars, metricsVars, otherVars >>
  \/ \E reply \in RewriteReplies :
       RewriteThrows(reply) /\ UNCHANGED << routeVars, metricsVars, otherVars >>
  \/ \E reply \in RewriteReplies :
       RewriteReturns(reply) /\ UNCHANGED << routeVars, metricsVars, otherVars >>
  \/ \E reply \in EvaluatorReplies :
       CheckReturns(reply) /\ UNCHANGED << routeVars, metricsVars, otherVars >>

Spec == Init /\ [][Next]_allVars

\* An await of humanize resumes once the promise it waits for has resolved
\* or rejected: the call leaves the stage in which it awaits callRewrite,
\* and the stage in which it awaits checkMeaning.
RewriteAwaitEnds ==
  /\ pc \in {"Rewriting", "RetryRewriting"}
  /\ pc' \in {"CheckingMeaning", "RetryCheckingMeaning", "Failed"}

CheckAwaitEnds ==
  /\ pc \in {"CheckingMeaning", "RetryCheckingMeaning"}
  /\ pc' \in {"RetryRewriting", "Done"}

\* Spec with every collaborator call eventually returning or failing.
LiveSpec == Spec /\ WF_pc(RewriteAwaitEnds) /\ WF_pc(CheckAwaitEnds)

(***************************************************************************)
(* Properties of one humanize call, read off the log of its calls          *)
(***************************************************************************)

\* The positions in the log of the calls of one operation.
CallsOf(op) == {i \in 1..Len(calls) : calls[i].op = op}
NumRewriteCalls == Cardinality(CallsOf("rewrite"))
NumCheckCalls == Cardinality(CallsOf("check"))

\* The first meaning check has returned, and the verdict it returned.
FirstCheckReturned == Len(calls) >= 2 /\ calls[2].outcome.kind = "returned"
FirstVerdict == calls[2].outcome.value

\* C1: at most one retry occurs in a humanize call: whatever verdicts the
\* collaborator returns, the rewrite operation is invoked at most twice and
\* the meaning-check operation at most twice.
C1_AtMostOneRetry == NumRewriteCalls <= 2 /\ NumCheckCalls <= 2

\* C1, reached: a call that ended after two rewrites and two checks with a
\* second verdict that is again not preserved, severity major.
C1_SecondVerdictAsksAgain ==
  /\ pc = "Done"
  /\ NumRewriteCalls = 2
  /\ NumCheckCalls = 2
  /\ calls[4].outcome = Returned(meaningCheck)
  /\ meaningCheck.preserved = JBool(FALSE)
  /\ meaningCheck.severity = JStr("major")

\* C2: for every call that returns a result, retried is true iff exactly two
\* rewrite calls and two meaning-check calls were made, and false iff
\* exactly one of each was made.
C2_RetriedCountsCalls ==
  result.returned =>
    /\ result.retried = TRUE <=> (NumRewriteCalls = 2 /\ NumCheckCalls = 2)
    /\ result.retried = FALSE <=> (NumRewriteCalls = 1 /\ NumCheckCalls = 1)

\* C2, reached: a result returned with retried true.
C2_ReturnedAfterRetry == result.returned /\ result.retried /\ Len(calls) = 4

\* C3: the second, stricter rewrite and the second check are performed iff
\* the first verdict has preserved = false and severity = "major"; in every
\* other case the first rewrite and verdict are accepted as they are, no
\* further call is made, and retried is false.
C3_RetryIffLostAndMajor ==
  FirstCheckReturned =>
    IF FirstVerdict.preserved = JBool(FALSE) /\ FirstVerdict.severity = JStr("major")
      THEN /\ Len(calls) >= 3
           /\ calls[3].op = "rewrite"
           /\ calls[3].stricter
           /\ pc = "Done" => (Len(calls) = 4 /\ result.retried)
      ELSE /\ Len(calls) = 2
           /\ pc = "Done"
           /\ result.rewritten = calls[1].outcome.value
           /\ result.meaningCheck = FirstVerdict
           /\ result.retried = FALSE

\* C4: whenever the first verdict has severity "major", a second
\* rewrite-and-check cycle is performed, the rewrite with stricter
\* constraints, and the result has retried = true.
C4_MajorAlwaysRetries ==
  (FirstCheckReturned /\ FirstVerdict.severity = JStr("major")) =>
    /\ Len(calls) >= 3
    /\ calls[3].op = "rewrite"
    /\ calls[3].stricter
    /\ result.returned => result.retried

\* The verdict the fail-open policy promises.
FailOpenVerdict ==
  [preserved |-> JBool(TRUE), issues |-> JArr(<<>>), severity |-> JStr("none")]

\* The replies to a meaning check that are a failure of the call or text
\* that is no JSON.
NotAVerdict(reply) ==
  \/ reply.kind = "throw"
  \/ reply \in {Returns(JStr(VerdictProse)), Returns(JStr(VerdictCutOff))}

\* C5: fail-open: when a meaning-check call throws or its response text is
\* no JSON, the verdict of that check is exactly {preserved: true,
\* issues: [], severity: "none"}, no error leaves humanize, and humanize
\* returns a complete result (original, rewritten, metrics, meaningCheck,
\* retried).
C5_FailOpen ==
  \A i \in CallsOf("check") :
    NotAVerdict(calls[i].reply) =>
      /\ calls[i].outcome = Returned(FailOpenVerdict)
      /\ i = Len(calls)
      /\ pc = "Done"
      /\ error = NoError
      /\ result.returned
      /\ DOMAIN result =
           {"returned", "original", "rewritten", "metrics", "meaningCheck", "retried"}
      /\ result.meaningCheck = FailOpenVerdict

\* C5, reached: the check of the retry was answered by a verdict cut off in
\* the middle, and the call returned its result.
C5_CutOffVerdictAfterRetry ==
  /\ Len(calls) = 4
  /\ calls[4].reply = Returns(JStr(VerdictCutOff))
  /\ result.returned
  /\ result.retried

\* C6: when a rewrite call fails, the first or the stricter second one, the
\* failure leaves humanize unrecovered: no result is produced, and nothing
\* (no meaning check, no further rewrite, no metrics) runs after the failed
\* call.
C6_RewriteFailurePropagates ==
  \A i \in CallsOf("rewrite") :
    calls[i].reply.kind = "throw" =>
      /\ i = Len(calls)
      /\ calls[i].outcome = Rejected(calls[i].reply.message)
      /\ pc = "Failed"
      /\ error = [thrown |-> TRUE, message |-> calls[i].reply.message]
      /\ result = NoResult

\* C6, reached: the stricter second rewrite failed.
C6_RetryRewriteFailed ==
  /\ pc = "Failed"
  /\ Len(calls) = 3
  /\ calls[3].stricter
  /\ calls[3].reply.kind = "throw"

\* C7 as the spec states it: a humanize call makes at most 3 calls to the
\* collaborator, rewrites and meaning checks counted together.
C7_AtMostThreeCalls == Len(calls) <= 3

\* C7, amended: a humanize call makes at most 4 calls to the collaborator,
\* rewrites and meaning checks counted together.
C7_AtMostFourCalls == Len(calls) <= 4

\* C7, reached: four calls were made and answered.
C7_FourCallsAnswered ==
  Len(calls) = 4 /\ \A i \in 1..4 : calls[i].outcome.kind = "returned"

\* The steps between the stages of a call, with the start of the call and
\* the two ways of failing.
StageSteps ==
  { << "Idle", "Rewriting" >>,
    << "Rewriting", "CheckingMeaning" >>,
    << "CheckingMeaning", "Done" >>,
    << "CheckingMeaning", "RetryRewriting" >>,
    << "RetryRewriting", "RetryCheckingMeaning" >>,
    << "RetryCheckingMeaning", "Done" >>,
    << "Rewriting", "Failed" >>,
    << "RetryRewriting", "Failed" >> }

\* The log at each stage: rewrites and checks alternate, every call but the
\* last has returned, the last one is pending exactly while its stage lasts,
\* each check is given what the rewrite before it returned, and there is a
\* result (and so metrics) only when the last check has returned.
CallsInOrder ==
  /\ Len(calls) = CASE pc = "Idle" -> 0
                    [] pc = "Rewriting" -> 1
                    [] pc = "CheckingMeaning" -> 2
                    [] pc = "RetryRewriting" -> 3
                    [] pc = "RetryCheckingMeaning" -> 4
                    [] pc = "Done" -> IF retried THEN 4 ELSE 2
                    [] pc = "Failed" -> IF NumCheckCalls = 0 THEN 1 ELSE 3
  /\ \A i \in 1..Len(calls) :
       /\ calls[i].op = IF i % 2 = 1 THEN "rewrite" ELSE "check"
       /\ i < Len(calls) => calls[i].outcome.kind = "returned"
       /\ calls[i].op = "check" => calls[i].rewritten = calls[i - 1].outcome.value
  /\ Len(calls) > 0 =>
       (calls[Len(calls)].outcome.kind = "pending"
          <=> pc \in {"Rewriting", "CheckingMeaning", "RetryRewriting", "RetryCheckingMeaning"})
  /\ result.returned <=> pc = "Done"
  /\ pc = "Done" => calls[Len(calls)].op = "check"

\* A step of the call is one of StageSteps.
StageStep == << pc, pc' >> \in StageSteps

\* C8: the stages of a call occur in the order Rewriting, CheckingMeaning,
\* Done or Rewriting, CheckingMeaning, RetryRewriting, RetryCheckingMeaning,
\* Done, with no other step between them; no call starts before the one
\* before it has completed, each meaning check is given the output of the
\* rewrite just before it, and metrics are computed only after the last
\* meaning check.
C8_StageOrder == [](CallsInOrder) /\ [][StageStep]_vars

\* C8, reached: the long path to Done, the second check having been given a
\* second rewrite that differs from the first.
C8_RetryPathDone ==
  /\ pc = "Done"
  /\ retried
  /\ calls[4].rewritten = calls[3].outcome.value
  /\ calls[3].outcome.value # calls[1].outcome.value

\* C9: the result has original equal to the input text; its rewritten and
\* meaningCheck are the second rewrite and verdict when a retry occurred and
\* the first ones otherwise; its metrics are computeMetrics(input text,
\* returned rewritten); and every rewrite and every meaning check is given
\* the input text.
C9_ResultFields ==
  /\ \A i \in CallsOf("rewrite") : calls[i].text = calls[1].text
  /\ \A i \in CallsOf("check") : calls[i].original = calls[1].text
  /\ result.returned =>
       /\ result.original = calls[1].text
       /\ result.rewritten = calls[IF result.retried THEN 3 ELSE 1].outcome.value
       /\ result.meaningCheck = calls[IF result.retried THEN 4 ELSE 2].outcome.value
       /\ result.metrics = computeMetricsOf(calls[1].text, result.rewritten)

\* C9, reached: a result after a retry whose second rewrite and second
\* verdict differ from the first ones.
C9_RetriedResult ==
  /\ result.returned
  /\ result.retried
  /\ calls[3].outcome.value # calls[1].outcome.value
  /\ calls[4].outcome.value # calls[2].outcome.value
  /\ result.rewritten # result.original

\* The instructions callRewrite can send in the model, and for each whether
\* it contains the key-point appendix and the CRITICAL instruction.
SystemPrompts ==
  {callRewrite("", o, b).system : o \in AllOptions, b \in BOOLEAN}
Mentions ==
  [p \in SystemPrompts |->
     [ keyPoints |-> includes(p, KEY_POINT_PRESERVATION),
       critical |-> includes(p, CRITICAL_INSTRUCTION) ]]

\* C10: the first rewrite call uses stricter = false and preserveKeyPoints
\* as the caller passed it; the retry uses stricter = true with
\* preserveKeyPoints = true whatever the caller passed, so its instructions
\* contain the key-point appendix and the CRITICAL instruction; stricter is
\* never true on a first rewrite.
C10_StricterOnlyOnRetry ==
  \A i \in CallsOf("rewrite") :
    IF i = 1
      THEN /\ calls[i].stricter = FALSE
           /\ calls[i].options = options
           /\ calls[i].config.preserveKeyPoints = options.preserveKeyPoints
           /\ Mentions[calls[i].system].keyPoints <=> options.preserveKeyPoints
           /\ ~Mentions[calls[i].system].critical
      ELSE /\ i = 3
           /\ calls[i].stricter = TRUE
           /\ calls[i].config.preserveKeyPoints = TRUE
           /\ Mentions[calls[i].system].keyPoints
           /\ Mentions[calls[i].system].critical

\* C10, reached: a retry of a call whose caller passed preserveKeyPoints =
\* false.
C10_RetryWithoutKeyPoints ==
  /\ Len(calls) >= 3
  /\ options.preserveKeyPoints = FALSE
  /\ calls[3].stricter

(***************************************************************************)
(* computeMetrics called on its own.  It is an exported function that      *)
(* takes any two strings; the only state its code touches is the lastIndex *)
(* of the pattern object of passiveVoicePercentage, which is created anew  *)
(* by each call (the pattern is a literal inside the function).            *)
(***************************************************************************)

\* How many of the sample texts below the calls are made with.
NumMetricTexts == 8

MetricSamples ==
  << "In order to win, it is important to note that mistakes were made. Furthermore, we learn.",
     "The report was written by the team. It was shown to everyone! Nobody knows.",
     "the cat sat on the mat and it was seen",
     "We slipped. To win, we note the mistakes, we own them all and then we learn.",
     "Additionally, organizational considerations necessitate comprehensive documentation.",
     "",
     "The cat sat.",
     "  \n\t ",
     "Moreover, the plan is done. Is it approved? It plays a vital role." >>

MetricTexts == {MetricSamples[i] : i \in 1..Min(NumMetricTexts, Len(MetricSamples))}

\* PatternStart as it would be with one pattern object shared by all calls
\* and never reset: a call would start where the one before it stopped.
PatternShared(left) == left

\* The lastIndex of passivePattern when the filter of a call starts, left
\* being what the filter of the call before left in its own pattern: the
\* literal makes a new object, whose lastIndex is 0.
PatternStart(left) == 0

\* The lastIndex the filter leaves in the pattern after the last sentence.
RECURSIVE PassiveLeft(_, _)
PassiveLeft(sentences, lastIndex) ==
  IF sentences = <<>> THEN lastIndex
  ELSE PassiveLeft(Tail(sentences), PassiveTest(Head(sentences), lastIndex).lastIndex)

\* passiveVoicePercentage on sentences with a pattern whose lastIndex is
\* start: the percentage it returns and the lastIndex its filter leaves.
PassiveRun(sentences, start) ==
  [ percent |-> RoundDiv(PassiveCount(sentences, start) * 100, Len(sentences)),
    left |-> PassiveLeft(sentences, start) ]

\* The measurements of each sample text, evaluated once.
TextMeasures ==
  [t \in MetricTexts |->
     [ readability |-> fleschKincaidScore(t),
       variance |-> sentenceLengthVariance(t),
       filler |-> countFillerPhrases(t),
       words |-> countWords(t),
       sentences |-> splitSentences(t),
       passive |-> IF splitSentences(t) = <<>> THEN [percent |-> 0, left |-> 0]
                   ELSE PassiveRun(splitSentences(t), 0) ]]

\* One call of passiveVoicePercentage(txt): without sentences it returns 0
\* before it makes a pattern.
PassiveCallFrom(txt, start, left) ==
  IF TextMeasures[txt].sentences = <<>> THEN [percent |-> 0, left |-> left]
  ELSE IF start = 0 THEN TextMeasures[txt].passive
  ELSE PassiveRun(TextMeasures[txt].sentences, start)

PassiveCall(txt, left) == PassiveCallFrom(txt, PatternStart(left), left)

\* One call of computeMetrics(original, rewrittenText), pB and pA being its
\* two calls of passiveVoicePercentage.
MetricsCallFrom(original, rewrittenText, pB, pA, entered) ==
  [ called |-> TRUE,
    entered |-> entered,
    original |-> original,
    rewritten |-> rewrittenText,
    metrics |->
      QualityMetrics(TextMeasures[original].readability,
                     TextMeasures[rewrittenText].readability,
                     LengthRatio(TextMeasures[original].words,
                                 TextMeasures[rewrittenText].words),
                     TextMeasures[original].variance,
                     TextMeasures[rewrittenText].variance,
                     pB.percent, pA.percent,
                     TextMeasures[original].filler,
                     TextMeasures[rewrittenText].filler),
    left |-> pA.left ]

MetricsCallAfter(original, rewrittenText, pB, entered) ==
  MetricsCallFrom(original, rewrittenText, pB, PassiveCall(rewrittenText, pB.left), entered)

\* The call made when the pattern of the call before was left at lastIndex
\* left (kept in the field entered).
MetricsCall(original, rewrittenText, left) ==
  MetricsCallAfter(original, rewrittenText, PassiveCall(original, left), left)

\* computeMetrics(original, rewrittenText) is called and returns.
MetricsCalled(original, rewrittenText) ==
  /\ lastMetrics' = MetricsCall(original, rewrittenText, patternLeft)
  /\ patternLeft' = lastMetrics'.left
  /\ firstMetrics' = IF firstMetrics.called THEN firstMetrics ELSE lastMetrics'
  /\ UNCHANGED << vars, routeVars, otherVars >>

MetricsNext ==
  \E original \in MetricTexts, rewrittenText \in MetricTexts :
    MetricsCalled(original, rewrittenText)

MetricsSpec == Init /\ [][MetricsNext]_allVars

\* What the latest call of computeMetrics returned.
Measured == lastMetrics.metrics

(***************************************************************************)
(* Properties of the metrics                                               *)
(***************************************************************************)

\* C12: for every (original, rewritten) pair, computeMetrics returns an
\* integer overallScore with 0 <= overallScore <= 100.
C12_ScoreInRange ==
  lastMetrics.called => Measured.overallScore \in 0..100

\* C12, reached: a call on a rewrite that is less readable and more than one
\* and a half times as long, which scores 35.
C12_PenalisedScore ==
  /\ lastMetrics.called
  /\ Measured.readabilityAfter < Measured.readabilityBefore - 100
  /\ Measured.lengthRatio > 150
  /\ Measured.overallScore = 35

\* The five bonuses of the score, read off the returned measurements.
ReadabilityHigher == Measured.readabilityAfter > Measured.readabilityBefore
VarianceHigher == Measured.sentenceVarianceAfter > Measured.sentenceVarianceBefore
PassiveLower == Measured.passiveVoiceAfter < Measured.passiveVoiceBefore
FillerLower == Measured.fillerCountAfter < Measured.fillerCountBefore
LengthInRange == Measured.lengthRatio >= 70 /\ Measured.lengthRatio <= 110

AllFiveBonuses ==
  ReadabilityHigher /\ VarianceHigher /\ PassiveLower /\ FillerLower /\ LengthInRange

\* C13: overallScore never exceeds 90, and it equals 90 exactly when all
\* five bonuses apply together.
C13_NinetyIsTheMaximum ==
  lastMetrics.called =>
    /\ Measured.overallScore <= 90
    /\ Measured.overallScore = 90 <=> AllFiveBonuses

\* The five terms of the score as C14 states them.
TermR ==
  IF Measured.readabilityAfter > Measured.readabilityBefore THEN 10
  ELSE IF Measured.readabilityAfter < Measured.readabilityBefore - 100 THEN -5
  ELSE 0
TermV == IF Measured.sentenceVarianceAfter > Measured.sentenceVarianceBefore THEN 10 ELSE 0
TermP ==
  IF Measured.passiveVoiceAfter < Measured.passiveVoiceBefore THEN 10
  ELSE IF Measured.passiveVoiceAfter > Measured.passiveVoiceBefore THEN -5
  ELSE 0
TermF == IF Measured.fillerCountAfter < Measured.fillerCountBefore THEN 10 ELSE 0
TermL ==
  IF Measured.lengthRatio >= 70 /\ Measured.lengthRatio <= 110 THEN 10
  ELSE IF Measured.lengthRatio < 50 \/ Measured.lengthRatio > 150 THEN -10
  ELSE 0

Clamp(n) == Max(0, Min(100, n))

\* The orders in which five rules can be applied, and the score reached by
\* adding the terms to 50 in one of them.
Orders == {f \in [1..5 -> 1..5] : \A i, j \in 1..5 : f[i] = f[j] => i = j}

RECURSIVE AddInOrder(_, _, _, _)
AddInOrder(score, terms, order, i) ==
  IF i > 5 THEN score ELSE AddInOrder(score + terms[order[i]], terms, order, i + 1)

\* C14: overallScore is 50 + R + V + P + F + L clamped to 0..100, with the
\* five terms as the claim defines them, in whichever order the five rules
\* are applied.
C14_ScoreFormula ==
  lastMetrics.called =>
    /\ Measured.overallScore = Clamp(50 + TermR + TermV + TermP + TermF + TermL)
    /\ \A order \in Orders :
         Measured.overallScore =
           Clamp(AddInOrder(50, << TermR, TermV, TermP, TermF, TermL >>, order, 1))

\* C14, reached: a call in which one bonus and all three penalties apply.
C14_BonusAndPenalties ==
  /\ lastMetrics.called
  /\ TermR = -5
  /\ TermV = 10
  /\ TermP = -5
  /\ TermF = 0
  /\ TermL = -10
  /\ Measured.overallScore = 40

\* The latest call was made on a rewritten text identical to the original.
IdenticalTexts == lastMetrics.called /\ lastMetrics.rewritten = lastMetrics.original

\* C15 as stated: for every original text, when the rewritten text is
\* identical to the original, lengthRatio is 1.0.
C15_IdenticalGivesOne == IdenticalTexts => Measured.lengthRatio = 100

\* C15, amended: for every original text that has at least one word, when
\* the rewritten text is identical to the original, lengthRatio is 1.0 (for
\* a text without words it is 0).
C15_IdenticalWithWordsGivesOne ==
  IdenticalTexts =>
    Measured.lengthRatio = IF TextMeasures[lastMetrics.original].words >= 1 THEN 100 ELSE 0

\* C15, reached: a call on two identical texts of several sentences.
C15_IdenticalSentences ==
  /\ IdenticalTexts
  /\ Len(TextMeasures[lastMetrics.original].sentences) >= 2
  /\ Measured.lengthRatio = 100

\* C16: computeMetrics is deterministic and keeps no state: the latest call
\* returns the metrics that the first call on the same pair of texts
\* returned, whatever calls were made between the two.
C16_SameTextsSameMetrics ==
  ( /\ firstMetrics.called
    /\ lastMetrics.called
    /\ lastMetrics.original = firstMetrics.original
    /\ lastMetrics.rewritten = firstMetrics.rewritten )
  => lastMetrics.metrics = firstMetrics.metrics

\* C16, reached: the pair of the first call measured again, after a call
\* whose pattern stopped inside its last sentence, both texts of the pair
\* having passive sentences.
C16_MeasuredAgain ==
  /\ firstMetrics.called
  /\ lastMetrics.called
  /\ lastMetrics.original = firstMetrics.original
  /\ lastMetrics.rewritten = firstMetrics.rewritten
  /\ firstMetrics.entered = 0
  /\ lastMetrics.entered # 0
  /\ Measured.passiveVoiceBefore > 0
  /\ Measured.passiveVoiceAfter > 0

\* The percentage of the sentences of each sample text that contain a match
\* of the passive pattern, each sentence being searched from its start.
PassiveSentencePercent ==
  [t \in MetricTexts |->
     IF TextMeasures[t].sentences = <<>> THEN 0
     ELSE RoundDiv(
            100 * Cardinality({i \in 1..Len(TextMeasures[t].sentences) :
                                 PassiveTest(TextMeasures[t].sentences[i], 0).matched}),
            Len(TextMeasures[t].sentences))]

\* C17: passiveVoicePercentage(text) is round(100 * k / n), n being the
\* number of sentences of the text and k the number of them that contain a
\* match of the passive pattern, whatever sentences come before them; it is
\* 0 for zero sentences and an integer in 0..100.
C17_PassivePerSentence ==
  lastMetrics.called =>
    /\ Measured.passiveVoiceBefore = PassiveSentencePercent[lastMetrics.original]
    /\ Measured.passiveVoiceAfter = PassiveSentencePercent[lastMetrics.rewritten]
    /\ Measured.passiveVoiceBefore \in 0..100
    /\ Measured.passiveVoiceAfter \in 0..100

(***************************************************************************)
(* Termination of a humanize call                                          *)
(***************************************************************************)

\* The humanize call has ended: it returned a result, or the error of a
\* failed rewrite call left it.
Terminated ==
  \/ pc = "Done" /\ result.returned /\ error = NoError
  \/ /\ pc = "Failed"
     /\ error.thrown
     /\ result = NoResult
     /\ calls[Len(calls)].op = "rewrite"
     /\ calls[Len(calls)].reply.kind = "throw"

\* The latest call is a meaning check that failed or whose reply is no JSON.
CheckFailed ==
  /\ calls # <<>>
  /\ calls[Len(calls)].op = "check"
  /\ NotAVerdict(calls[Len(calls)].reply)

\* C11: provided every collaborator call eventually returns or fails, every
\* humanize call eventually terminates: it reaches Done and returns a
\* HumanizeResult, or a rewrite failure leaves it.  A meaning check that is
\* awaited always leads to Done or to the one retry, and a failed meaning
\* check or a malformed verdict ends the call in Done.
C11_Terminates ==
  /\ (pc # "Idle") ~> Terminated
  /\ (pc = "CheckingMeaning") ~> (pc \in {"Done", "RetryRewriting"})
  /\ (pc = "RetryCheckingMeaning") ~> (pc = "Done")
  /\ [](CheckFailed => pc = "Done")

\* C11, reached: a call that retried and is done, the meaning check of the
\* retry having failed.
C11_DoneAfterFailedRetryCheck ==
  /\ pc = "Done"
  /\ Len(calls) = 4
  /\ calls[4].reply.kind = "throw"
  /\ result.returned
  /\ result.retried

(***************************************************************************)
(* The types of the returned verdict                                       *)
(***************************************************************************)

IsStringArray(v) ==
  v.t = "array" /\ \A i \in 1..Len(v.items) : v.items[i].t = "string"

\* C18: in every HumanizeResult that humanize returns, meaningCheck.preserved
\* is a boolean, meaningCheck.issues is a sequence of strings and
\* meaningCheck.severity is one of none, minor and major, whatever JSON the
\* collaborator returned for the meaning check.
C18_VerdictTypes ==
  result.returned =>
    /\ result.meaningCheck.preserved.t = "boolean"
    /\ IsStringArray(result.meaningCheck.issues)
    /\ result.meaningCheck.severity \in {JStr("none"), JStr("minor"), JStr("major")}

(***************************************************************************)
(* route.ts: the POST handler of /api/humanize, which validates the body   *)
(* of the request, calls humanize and turns its outcome into a response.   *)
(***************************************************************************)

MAX_INPUT_LENGTH == 10000
VALID_TONES == << "professional", "friendly", "confident" >>
VALID_STRENGTHS == << "light", "medium", "strong" >>

\* What await req.json() gives: a JSON value, or the SyntaxError of a body
\* that is no JSON.
JsonBody(value) == [kind |-> "json", value |-> value]
MalformedBody(message) == [kind |-> "malformed", message |-> message]

\* A body that is an object with the four members the handler reads; a
\* member that is undefined stands for a member the object does not have.
BodyOf(txt, tone, strength, preserveKeyPoints) ==
  JsonBody(JObj(<< << "text", txt >>, << "tone", tone >>, << "strength", strength >>,
                   << "preserveKeyPoints", preserveKeyPoints >> >>))

\* n spaces (built by halves).
RECURSIVE Spaces(_)
Spaces(n) ==
  IF n <= 0 THEN ""
  ELSE IF n = 1 THEN " "
  ELSE Spaces(n \div 2) \o Spaces(n - n \div 2)

\* s followed by spaces up to the length n.
PadTo(s, n) == s \o Spaces(n - Len(s))

\* The bodies the requests of the model carry: three that pass the
\* validation (one of them exactly MAX_INPUT_LENGTH characters long), and
\* bodies that fail each of its checks, are no object, or are no JSON.
AcceptedBodies ==
  { BodyOf(JStr("  The cat sat.\n"), JStr("professional"), JStr("light"), JBool(TRUE)),
    BodyOf(JStr(SampleTexts[1]), JStr("confident"), JStr("strong"), JUndefined),
    BodyOf(JStr(PadTo("The cat sat.", MAX_INPUT_LENGTH)), JStr("friendly"), JStr("medium"),
           JStr("yes")) }

RejectedBodies ==
  { BodyOf(JUndefined, JStr("professional"), JStr("light"), JBool(TRUE)),
    BodyOf(JNum("5", FALSE), JStr("professional"), JStr("light"), JBool(TRUE)),
    BodyOf(JArr(<< JStr("The cat sat.") >>), JStr("professional"), JStr("light"), JBool(TRUE)),
    BodyOf(JStr(""), JStr("professional"), JStr("light"), JBool(TRUE)),
    BodyOf(JStr(" \n\t "), JStr("professional"), JStr("light"), JBool(TRUE)),
    BodyOf(JStr(PadTo("The cat sat.", MAX_INPUT_LENGTH + 1)), JStr("professional"),
           JStr("light"), JBool(TRUE)),
    BodyOf(JStr("The cat sat."), JStr("casual"), JStr("light"), JBool(TRUE)),
    BodyOf(JStr("The cat sat."), JStr("Professional"), JStr("light"), JBool(TRUE)),
    BodyOf(JStr("The cat sat."), JUndefined, JStr("light"), JBool(TRUE)),
    BodyOf(JStr("The cat sat."), JStr("professional"), JStr("extreme"), JBool(FALSE)),
    BodyOf(JStr("The cat sat."), JStr("professional"), JNum("2", FALSE), JBool(FALSE)),
    JsonBody(JStr("The cat sat.")),
    JsonBody(JArr(<<>>)) }

UnreadableBodies ==
  { JsonBody(JNull),
    MalformedBody("Unexpected token 'T', \"The cat sat.\" is not valid JSON") }

RouteBodies == AcceptedBodies \cup RejectedBodies \cup UnreadableBodies

\* VALID_TONES.includes(v), VALID_STRENGTHS.includes(v)
Includes(valid, v) == v.t = "string" /\ \E i \in 1..Len(valid) : valid[i] = v.s

\* VALID_TONES.join(", ")
RECURSIVE Join(_, _)
Join(seq, sep) ==
  IF seq = <<>> THEN ""
  ELSE IF Len(seq) = 1 THEN Head(seq)
  ELSE Head(seq) \o sep \o Join(Tail(seq), sep)

\* IsAuthError as it would be if the message were searched as it is.
IsAuthErrorCaseSensitive(message) == includes(message, "api key")

\* message.toLowerCase().includes("api key")
IsAuthError(message) == includes(toLowerCase(message), "api key")

AUTH_ERROR_TEXT ==
  "OpenAI API key is missing or invalid. Please check your .env.local file."
GENERIC_ERROR_TEXT == "Failed to humanize text. Please try again."

\* JsonError as it would be without the { status } argument: the status of
\* NextResponse.json is then 200.
JsonErrorWithoutStatus(status, message) == [status |-> 200, body |-> [error |-> message]]

\* NextResponse.json({ error }, { status })
JsonError(status, message) == [status |-> status, body |-> [error |-> message]]

BadRequest(message) == JsonError(400, message)

\* The response of the catch block for an error with that message (what is
\* thrown here is an Error: the errors of the collaborator's client, the
\* SyntaxError of req.json(), the TypeError of reading members of null).
CaughtResponse(message) ==
  IF IsAuthError(message) THEN JsonError(401, AUTH_ERROR_TEXT)
  ELSE JsonError(500, GENERIC_ERROR_TEXT)

DESTRUCTURE_ERROR == "Cannot destructure property 'text' of 'body' as it is null."

\* !text || typeof text !== "string" || text.trim().length === 0
TextMissing(txt) == Not(txt) \/ txt.t # "string" \/ Len(trim(txt.s)) = 0

\* The response the handler gives before it calls humanize, NoResponse when
\* it gives none: the failure of req.json() or of the destructuring, or the
\* first check of the validation that fails.
ValidationOf(value) ==
  IF PropertyThrows(value) THEN CaughtResponse(DESTRUCTURE_ERROR)
  ELSE IF TextMissing(GetProperty(value, "text"))
    THEN BadRequest("Please provide some text to humanize.")
  ELSE IF Len(GetProperty(value, "text").s) > MAX_INPUT_LENGTH
    THEN BadRequest("Text is too long. Maximum 10,000 characters allowed.")
  ELSE IF ~Includes(VALID_TONES, GetProperty(value, "tone"))
    THEN BadRequest("Invalid tone. Choose from: " \o Join(VALID_TONES, ", "))
  ELSE IF ~Includes(VALID_STRENGTHS, GetProperty(value, "strength"))
    THEN BadRequest("Invalid strength. Choose from: " \o Join(VALID_STRENGTHS, ", "))
  ELSE NoResponse

EarlyResponse(body) ==
  IF body.kind = "malformed" THEN CaughtResponse(body.message)
  ELSE ValidationOf(body.value)

\* The options the handler builds: preserveKeyPoints is !!preserveKeyPoints.
RouteOptions(value) ==
  [ tone |-> GetProperty(value, "tone").s,
    strength |-> GetProperty(value, "strength").s,
    preserveKeyPoints |-> ~Not(GetProperty(value, "preserveKeyPoints")) ]

\* What each body of the model leads to, evaluated once.
Early == [body \in RouteBodies |-> EarlyResponse(body)]
Trimmed == [body \in AcceptedBodies |-> trim(GetProperty(body.value, "text").s)]

\* POST is called with a request: the handler reads the body and answers at
\* once, or calls humanize(text.trim(), options) and awaits it.
Post(body) ==
  /\ request = NoRequest
  /\ pc = "Idle"
  /\ request' = body
  /\ response' = Early[body]
  /\ IF Early[body] = NoResponse
       THEN HumanizeCalled(Trimmed[body], RouteOptions(body.value))
       ELSE UNCHANGED vars
  /\ UNCHANGED << metricsVars, otherVars >>

\* The awaited humanize has returned: return NextResponse.json(result).
RouteReturns ==
  /\ pc = "Done"
  /\ response = NoResponse
  /\ response' = [status |-> 200, body |-> result]
  /\ UNCHANGED << vars, request, metricsVars, otherVars >>

\* The awaited humanize has rejected: the catch block answers.
RouteCatches ==
  /\ pc = "Failed"
  /\ response = NoResponse
  /\ response' = CaughtResponse(error.message)
  /\ UNCHANGED << vars, request, metricsVars, otherVars >>

RouteNext ==
  \/ \E body \in RouteBodies : Post(body)
  \/ \E reply \in RewriteReplies :
       RewriteThrows(reply) /\ UNCHANGED << routeVars, metricsVars, otherVars >>
  \/ \E reply \in RewriteReplies :
       RewriteReturns(reply) /\ UNCHANGED << routeVars, metricsVars, otherVars >>
  \/ \E reply \in EvaluatorReplies :
       CheckReturns(reply) /\ UNCHANGED << routeVars, metricsVars, otherVars >>
  \/ RouteReturns
  \/ RouteCatches

RouteSpec == Init /\ [][RouteNext]_allVars

\* RouteSpec with every collaborator call eventually returning or failing
\* and the handler resuming once the humanize call it awaits has settled.
RouteLiveSpec ==
  /\ RouteSpec
  /\ WF_pc(RewriteAwaitEnds)
  /\ WF_pc(CheckAwaitEnds)
  /\ WF_response(RouteReturns)
  /\ WF_response(RouteCatches)

(***************************************************************************)
(* Properties of the route                                                 *)
(***************************************************************************)

\* The conditions of C19 on a body: text is a string that is non-empty
\* after trimming and at most 10000 characters long, tone and strength are
\* among the three tones and the three strengths.
MeetsConditions(body) ==
  /\ body.kind = "json"
  /\ GetProperty(body.value, "text").t = "string"
  /\ trim(GetProperty(body.value, "text").s) # ""
  /\ Len(GetProperty(body.value, "text").s) <= 10000
  /\ GetProperty(body.value, "tone") \in
       {JStr("professional"), JStr("friendly"), JStr("confident")}
  /\ GetProperty(body.value, "strength") \in {JStr("light"), JStr("medium"), JStr("strong")}

ConformingBodies == {body \in RouteBodies : MeetsConditions(body)}

\* C19: the handler calls humanize only for a request that meets the
\* conditions; a request that violates one of them receives a 400 response
\* and causes no call of humanize and no collaborator call.
C19_InvalidGets400 ==
  request # NoRequest =>
    /\ (pc # "Idle" \/ calls # <<>>) => request \in ConformingBodies
    /\ request \notin ConformingBodies =>
         response.status = 400 /\ pc = "Idle" /\ calls = <<>>

\* The message of an error mentions "api key", in any mix of cases.
MentionsApiKey(message) ==
  \E i \in 1..Len(message) : toLowerCase(SubSeq(message, i, Min(i + 6, Len(message)))) = "api key"

\* C20: an error that humanize propagates to the route is answered with
\* status 401 and the credentials message when its message contains
\* "api key" in any case, and with status 500 and the generic message
\* otherwise; it is never answered with status 200.
C20_ErrorClassified ==
  pc = "Failed" =>
    /\ response.status # 200
    /\ response # NoResponse =>
         IF MentionsApiKey(error.message)
           THEN /\ response.status = 401
                /\ response.body =
                     [error |-> "OpenAI API key is missing or invalid. Please check your .env.local file."]
           ELSE /\ response.status = 500
                /\ response.body = [error |-> "Failed to humanize text. Please try again."]

\* C20, reached: the stricter rewrite failed with an error about the API
\* key and the request was answered with status 401.
C20_RetryFailureAnswered401 ==
  /\ pc = "Failed"
  /\ Len(calls) = 3
  /\ error.message = "Incorrect API key provided."
  /\ response.status = 401

(***************************************************************************)
(* Two humanize calls in progress at once.  The calls run on one thread     *)
(* and interleave at their awaits only; between two awaits a call runs      *)
(* without interruption.  The module-level openai and MODEL are constants   *)
(* that no call assigns; text, options, rewritten, meaningCheck and         *)
(* retried are parameters and let-locals of the activation of humanize.     *)
(***************************************************************************)

\* The replies the two calls draw from.
PairRewriteReplies ==
  {Throws("Connection error.")}
    \cup {Returns(JStr(SampleRewrites[i])) : i \in 1..Min(NumRewrites, Len(SampleRewrites))}

PairEvaluatorReplies ==
  {Throws("Connection error."), Returns(JStr(VerdictLostMajor)),
   Returns(JStr(VerdictPreservedNone))}

\* The options each caller passes.
PairOptions ==
  [c \in Callers |->
     IF c = 1 THEN [tone |-> "professional", strength |-> "light", preserveKeyPoints |-> FALSE]
     ELSE [tone |-> "friendly", strength |-> "medium", preserveKeyPoints |-> TRUE]]

\* FrameOf as it would be if the locals of humanize were module-level
\* variables, one set for every call.
FrameShared(c) == 1

\* The activation that holds the parameters and locals of caller c's call:
\* every call of the function has its own.
FrameOf(c) == c

\* humanize from the return of an awaited checkMeaning, with the verdict it
\* returned, to its next await or its return.
CheckResumed(fr, stage, verdict) ==
  [ frame |-> [fr EXCEPT !.meaningCheck = verdict, !.retried = RetriedAfter(stage)],
    pc |-> AfterCheck(stage, verdict),
    sends |-> IF AfterCheck(stage, verdict) = "RetryRewriting" THEN 1 ELSE 0,
    result |-> IF AfterCheck(stage, verdict) = "RetryRewriting" THEN NoResult
               ELSE HumanizeResult(fr.text, fr.rewritten, verdict, RetriedAfter(stage)),
    error |-> NoError ]

\* humanize from the settling of an awaited callRewrite to its next await
\* or to the propagation of the error.
RewriteResumed(fr, stage, reply) ==
  IF RewriteRejects(reply)
    THEN [ frame |-> fr, pc |-> "Failed", sends |-> 0, result |-> NoResult,
           error |-> [thrown |-> TRUE, message |-> reply.message] ]
    ELSE [ frame |-> [fr EXCEPT !.rewritten = RewriteOutput(reply)],
           pc |-> IF stage = "Rewriting" THEN "CheckingMeaning" ELSE "RetryCheckingMeaning",
           sends |-> 1, result |-> NoResult, error |-> NoError ]

\* checkMeaning's verdict for each reply the two calls draw from, evaluated
\* once.
PairVerdicts == [reply \in PairEvaluatorReplies |-> MeaningVerdict(reply)]

\* humanize with locals fr, awaiting at stage, resumed with reply.
Resumed(fr, stage, reply) ==
  IF stage \in {"Rewriting", "RetryRewriting"}
    THEN RewriteResumed(fr, stage, reply)
    ELSE CheckResumed(fr, stage, PairVerdicts[reply])

\* Caller c's record once its call has resumed with reply and come to to.
CallerAfter(caller, reply, to) ==
  [ caller EXCEPT !.pc = to.pc, !.sent = @ + to.sends, !.replies = Append(@, reply),
                  !.result = to.result, !.error = to.error ]

\* The other caller's record when caller c's call has run: it was overtaken
\* if it stood at an await.
Overtaken(caller) ==
  [ caller EXCEPT !.overlapped = @ \/ caller.pc \notin {"Idle", "Done", "Failed"} ]

\* humanize(txt, opts) is called by caller c and runs to its first await.
PairCalled(c, txt, opts) ==
  /\ running.at[c].pc = "Idle"
  /\ running' =
       [ at |-> [d \in Callers |->
                   IF d = c
                     THEN [NotCalled EXCEPT !.pc = "Rewriting", !.text = txt,
                                            !.options = opts, !.sent = 1]
                     ELSE Overtaken(running.at[d])],
         frame |-> [running.frame EXCEPT
                      ![FrameOf(c)] = [NoFrame EXCEPT !.text = txt, !.options = opts]] ]
  /\ UNCHANGED << vars, routeVars, metricsVars, page, fillerCall >>

\* The state of the two calls when caller c's call has resumed and come to to.
PairAfter(pair, c, reply, to) ==
  [ at |-> [d \in Callers |->
              IF d = c THEN CallerAfter(pair.at[d], reply, to) ELSE Overtaken(pair.at[d])],
    frame |-> [pair.frame EXCEPT ![FrameOf(c)] = to.frame] ]

\* The callRewrite that caller c's call awaits settles.
PairRewriteSettles(c, reply) ==
  /\ running.at[c].pc \in {"Rewriting", "RetryRewriting"}
  /\ running' = PairAfter(running, c, reply,
                          Resumed(running.frame[FrameOf(c)], running.at[c].pc, reply))
  /\ UNCHANGED << vars, routeVars, metricsVars, page, fillerCall >>

\* The checkMeaning that caller c's call awaits returns.
PairCheckSettles(c, reply) ==
  /\ running.at[c].pc \in {"CheckingMeaning", "RetryCheckingMeaning"}
  /\ running' = PairAfter(running, c, reply,
                          Resumed(running.frame[FrameOf(c)], running.at[c].pc, reply))
  /\ UNCHANGED << vars, routeVars, metricsVars, page, fillerCall >>

PairNext ==
  \/ \E c \in Callers, txt \in Texts : PairCalled(c, txt, PairOptions[c])
  \/ \E c \in Callers, reply \in PairRewriteReplies : PairRewriteSettles(c, reply)
  \/ \E c \in Callers, reply \in PairEvaluatorReplies : PairCheckSettles(c, reply)

PairSpec == Init /\ [][PairNext]_allVars

(***************************************************************************)
(* Properties of two humanize calls in progress at once                    *)
(***************************************************************************)

\* A humanize call running alone: called with txt and opts, it has run to
\* its first await.
AloneCalled(txt, opts) ==
  [ pc |-> "Rewriting", frame |-> [NoFrame EXCEPT !.text = txt, !.options = opts],
    sent |-> 1, result |-> NoResult, error |-> NoError ]

AloneAfter(alone, to) ==
  [ pc |-> to.pc, frame |-> to.frame, sent |-> alone.sent + to.sends,
    result |-> to.result, error |-> to.error ]

\* The call running alone after the replies from the i-th on.
RECURSIVE AloneFrom(_, _, _)
AloneFrom(alone, replies, i) ==
  IF i > Len(replies) THEN alone
  ELSE AloneFrom(AloneAfter(alone, Resumed(alone.frame, alone.pc, replies[i])),
                 replies, i + 1)

\* Whether a caller's call stands where the call running alone stands.
SameAsAlone(caller, fr, alone) ==
  /\ caller.pc = alone.pc
  /\ caller.sent = alone.sent
  /\ fr.retried = alone.frame.retried
  /\ caller.result = alone.result
  /\ caller.error = alone.error

\* C21: however two humanize calls interleave at their awaits, each call's
\* number of collaborator calls, its retry decision, its result and its
\* error are those of the same call running alone with the same arguments
\* and the same collaborator replies.
C21_CallsIndependent ==
  \A c \in Callers :
    running.at[c].pc # "Idle" =>
      SameAsAlone(running.at[c], running.frame[FrameOf(c)],
                  AloneFrom(AloneCalled(running.at[c].text, running.at[c].options),
                            running.at[c].replies, 1))

\* Both calls have returned, each overtaken by the other while it stood at
\* an await, on different texts; the first retried and the second did not.
C21_BothReturnedInterleaved ==
  /\ running.at[1].pc = "Done" /\ running.at[2].pc = "Done"
  /\ running.at[1].overlapped /\ running.at[2].overlapped
  /\ running.at[1].text # running.at[2].text
  /\ running.at[1].result.retried /\ ~running.at[2].result.retried
  /\ running.at[1].sent = 4 /\ running.at[2].sent = 2

(***************************************************************************)
(* Degenerate texts                                                        *)
(***************************************************************************)

\* A text that is empty or white space only.
Blank(txt) == trim(txt) = ""

\* Which sample texts are blank, and how many sentences each has.
BlankSamples == {t \in MetricTexts : Blank(t)}
FewSentences == {t \in MetricTexts : Len(TextMeasures[t].sentences) < 2}

\* C22: for a blank text readability, sentence variance, passive percentage
\* and filler count are 0; a text of fewer than two sentences has variance
\* 0; and for an original without words the divisor of lengthRatio is 1, so
\* that lengthRatio is the word count of the rewrite (in hundredths, 100
\* times it).
C22_DegenerateInputs ==
  lastMetrics.called =>
    /\ lastMetrics.original \in BlankSamples =>
         /\ Measured.readabilityBefore = 0
         /\ Measured.sentenceVarianceBefore = 0
         /\ Measured.passiveVoiceBefore = 0
         /\ Measured.fillerCountBefore = 0
         /\ Measured.lengthRatio = 100 * TextMeasures[lastMetrics.rewritten].words
    /\ lastMetrics.rewritten \in BlankSamples =>
         /\ Measured.readabilityAfter = 0
         /\ Measured.sentenceVarianceAfter = 0
         /\ Measured.passiveVoiceAfter = 0
         /\ Measured.fillerCountAfter = 0
    /\ lastMetrics.original \in FewSentences => Measured.sentenceVarianceBefore = 0
    /\ lastMetrics.rewritten \in FewSentences => Measured.sentenceVarianceAfter = 0

\* computeMetrics has measured a rewrite of one sentence, "The cat sat.",
\* against an original of white space only, after calls on other texts.
C22_BlankOriginalOneSentence ==
  /\ lastMetrics.called
  /\ lastMetrics.original = "  \n\t "
  /\ lastMetrics.rewritten = "The cat sat."
  /\ Measured.lengthRatio = 300
  /\ Measured.sentenceVarianceAfter = 0
  /\ firstMetrics # lastMetrics

(***************************************************************************)
(* The readability bonus and the readabilityImproved flag                  *)
(***************************************************************************)

\* Whether the latest call added the readability bonus to its score.
ReadabilityBonusApplied ==
  ReadabilityTerm(Measured.readabilityBefore, Measured.readabilityAfter) = 10

\* C23: computeMetrics adds the readability bonus of 10 exactly when the
\* readabilityImproved flag it returns is true.
C23_BonusIffImproved ==
  lastMetrics.called => (ReadabilityBonusApplied <=> Measured.readabilityImproved)

(***************************************************************************)
(* Verdicts inside a code fence                                            *)
(***************************************************************************)

\* The verdict object inside each fenced reply.
Unfenced ==
  (FencedLostMajor :> VerdictLostMajor)
    @@ (FencedLostMinor :> VerdictLostMinor)
    @@ (FencedPreservedMajor :> VerdictPreservedMajor)

\* What checkMeaning returns for the object of each fenced reply when the
\* object comes without the fence.
UnfencedVerdict == [f \in DOMAIN Unfenced |-> MeaningVerdict(Returns(JStr(Unfenced[f])))]

FencedReply(reply) == reply \in {Returns(JStr(f)) : f \in DOMAIN Unfenced}

\* C24: a meaning check whose reply is a verdict object inside a code fence
\* returns the verdict it returns for the same object without the fence,
\* and that is not the verdict of the catch block.
C24_FenceStripped ==
  \A i \in CallsOf("check") :
    FencedReply(calls[i].reply) =>
      /\ calls[i].outcome = Returned(UnfencedVerdict[calls[i].reply.content.s])
      /\ calls[i].outcome.value # DefaultVerdict

\* The first check was answered with a fenced verdict of major drift, which
\* sent humanize into the retry, and the second check with a verdict in a
\* bare fence, which was returned.
C24_FencedVerdictsFollowed ==
  /\ Len(calls) = 4
  /\ calls[2].reply = Returns(JStr(FencedLostMajor))
  /\ calls[4].reply = Returns(JStr(FencedLostMinor))
  /\ result.returned
  /\ result.retried
  /\ result.meaningCheck.severity = JStr("minor")
  /\ result.meaningCheck.issues = JArr(<< JStr("Slightly rephrased.") >>)

(***************************************************************************)
(* countFillerPhrases called on its own, on a text and on the same text    *)
(* in another letter-casing.                                               *)
(***************************************************************************)

\* The texts are put together from an opening, a middle and an ending.
FillerOpenings ==
  { "In order to succeed, ",
    "Needless to say, for the purpose ofor the purpose of winning, ",
    "Moreover, in order to win in order to win, ",
    "" }

FillerMiddles ==
  { "it is important to note that consistency is key. ",
    "the furthermores of this world matter, moreover_x too. ",
    "in conclusion, it plays a vital role in terms of in terms of growth. " }

FillerEndings ==
  { "Furthermore, dedication matters.",
    "We learn.",
    "Furthermore furthermore: in summary, done." }

FillerTexts ==
  {o \o m \o e : o \in FillerOpenings, m \in FillerMiddles, e \in FillerEndings}

Casings == {"as written", "upper", "alternating"}

\* The upper-case letter of each lower-case letter.
UpperOf ==
  [c \in LowerSet |->
     LET i == CHOOSE j \in 1..Len(LowerLetters) : SubSeq(LowerLetters, j, j) = c
     IN SubSeq(UpperLetters, i, i)]

UpperChar(c) == IF c \in LowerSet THEN UpperOf[c] ELSE c

\* s in another letter-casing, first being the position in the whole text
\* of the first character of s.
RECURSIVE Recased(_, _, _)
Recased(s, casing, first) ==
  IF casing = "as written" \/ Len(s) = 0 THEN s
  ELSE IF Len(s) = 1
    THEN (IF casing = "upper" \/ first % 2 = 1 THEN UpperChar(s) ELSE LowerChar(s))
  ELSE Recased(SubSeq(s, 1, Len(s) \div 2), casing, first)
         \o Recased(SubSeq(s, Len(s) \div 2 + 1, Len(s)), casing, first + Len(s) \div 2)

\* countFillerPhrases(txt) is called, txt being plain in a letter-casing;
\* its result is kept next to that of countFillerPhrases(plain).
FillerCallOf(plain, txt) ==
  [ called |-> TRUE, text |-> txt, count |-> countFillerPhrases(txt),
    plain |-> plain, plainCount |-> countFillerPhrases(plain) ]

\* The calls on every text of the model in every casing, evaluated once.
FillerCalls ==
  [plain \in FillerTexts |->
     [casing \in Casings |-> FillerCallOf(plain, Recased(plain, casing, 1))]]

FillersCounted(plain, casing) ==
  /\ fillerCall' = FillerCalls[plain][casing]
  /\ UNCHANGED << vars, routeVars, metricsVars, running, page >>

FillerNext == \E plain \in FillerTexts, casing \in Casings : FillersCounted(plain, casing)

FillerSpec == Init /\ [][FillerNext]_allVars

(***************************************************************************)
(* Properties of countFillerPhrases                                        *)
(***************************************************************************)

\* The positions at which phrase occurs in lower, and those at which it
\* occurs as a whole word.
OccurrencesOf(lower, phrase) ==
  {i \in 1..(Len(lower) - Len(phrase) + 1) : SubSeq(lower, i, i + Len(phrase) - 1) = phrase}

WholeWordOccurrencesOf(lower, word) ==
  {i \in OccurrencesOf(lower, word) :
     /\ i = 1 \/ SubSeq(lower, i - 1, i - 1) \notin WordChars
     /\ i + Len(word) > Len(lower)
          \/ SubSeq(lower, i + Len(word), i + Len(word)) \notin WordChars}

Least(S) == CHOOSE i \in S : \A j \in S : i <= j

\* How many of the occurrences at positions, each of the given length, are
\* found from position from on when no two of them may overlap.
RECURSIVE NonOverlapping(_, _, _)
NonOverlapping(positions, length, from) ==
  IF \A i \in positions : i < from THEN 0
  ELSE 1 + NonOverlapping(positions, length,
                          Least({i \in positions : i >= from}) + length)

RECURSIVE ExpectedFillers(_, _)
ExpectedFillers(lower, k) ==
  IF k = 0 THEN 0
  ELSE NonOverlapping(OccurrencesOf(lower, FILLER_PHRASES[k]), Len(FILLER_PHRASES[k]), 1)
         + ExpectedFillers(lower, k - 1)

RECURSIVE ExpectedTransitions(_, _)
ExpectedTransitions(lower, k) ==
  IF k = 0 THEN 0
  ELSE NonOverlapping(WholeWordOccurrencesOf(lower, AI_TRANSITION_WORDS[k]),
                      Len(AI_TRANSITION_WORDS[k]), 1)
         + ExpectedTransitions(lower, k - 1)

ExpectedCount(lower) ==
  ExpectedFillers(lower, Len(FILLER_PHRASES))
    + ExpectedTransitions(lower, Len(AI_TRANSITION_WORDS))

ClaimedText ==
  "In order to succeed, it is important to note that consistency is key. Furthermore, dedication matters."

\* C25: countFillerPhrases(text) is the number of non-overlapping
\* occurrences of the filler phrases plus the number of whole-word
\* occurrences of the 10 transition words, letter case ignored, so that it
\* is the same for the text in any letter-casing; for the text of the claim
\* it is 3.
C25_FillerCount ==
  fillerCall.called =>
    /\ Len(AI_TRANSITION_WORDS) = 10
    /\ fillerCall.plainCount = ExpectedCount(toLowerCase(fillerCall.plain))
    /\ fillerCall.count = fillerCall.plainCount
    /\ fillerCall.plain = ClaimedText => fillerCall.count = 3

\* countFillerPhrases has counted 3 in the text of the claim in upper case.
C25_ClaimedTextInUpperCase ==
  /\ fillerCall.called
  /\ fillerCall.plain = ClaimedText
  /\ fillerCall.text =
       "IN ORDER TO SUCCEED, IT IS IMPORTANT TO NOTE THAT CONSISTENCY IS KEY. FURTHERMORE, DEDICATION MATTERS."
  /\ fillerCall.count = 3

(***************************************************************************)
(* Major drift in a returned result                                        *)
(***************************************************************************)

\* A result whose verdict says the meaning was not preserved, severity
\* major.
MajorDriftReturned ==
  /\ result.returned
  /\ result.meaningCheck.preserved = JBool(FALSE)
  /\ result.meaningCheck.severity = JStr("major")

\* C26: no result of humanize has retried = false together with
\* meaningCheck.preserved = false and meaningCheck.severity = "major": such
\* a verdict reaches the caller only after the retry, as the second verdict.
C26_MajorDriftOnlyAfterRetry ==
  MajorDriftReturned =>
    /\ result.retried = TRUE
    /\ Len(calls) = 4
    /\ result.meaningCheck = calls[4].outcome.value

\* A result with unpreserved major drift was returned after the retry, the
\* first verdict having said the same.
C26_MajorDriftTwice ==
  /\ MajorDriftReturned
  /\ result.retried
  /\ calls[2].reply = Returns(JStr(VerdictLostMajor))
  /\ calls[4].reply = Returns(JStr(FencedLostMajor))
  /\ calls[3].stricter

(***************************************************************************)
(* Verdict objects that lack fields                                        *)
(***************************************************************************)

PageTexts == {"", "   "} \cup {"  " \o t \o "\n" : t \in Texts}

\* The body of the request handleSubmit sends.
RequestOf(p) ==
  [ text |-> trim(p.text), tone |-> p.tone, strength |-> p.strength,
    preserveKeyPoints |-> p.preserveKeyPoints ]

\* The outcomes a fetch can have: a response that is ok with a result for
\* the text sent, a response that is not ok with a JSON body that has an
\* error member or has none, and a failure of fetch or of res.json().
PageResults ==
  {HumanizeResult(t, r, DefaultVerdict, FALSE) : t \in Texts, r \in RewriteOutputs}

PageErrorBodies ==
  { BadRequest("Please provide some text to humanize.").body,
    JsonError(401, AUTH_ERROR_TEXT).body,
    JsonError(500, GENERIC_ERROR_TEXT).body,
    [message |-> "Bad Gateway"] }

PageOutcomes ==
  {[kind |-> "ok", data |-> d] : d \in PageResults}
    \cup {[kind |-> "not ok", data |-> b] : b \in PageErrorBodies}
    \cup {[kind |-> "failed"]}

\* data.error || "Something went wrong"
ErrorOf(data) ==
  IF "error" \in DOMAIN data /\ data.error # "" THEN data.error ELSE "Something went wrong"

NETWORK_ERROR_TEXT == "Network error. Please check your connection and try again."

\* SubmitAllowed as it would be if handleSubmit did not look at loading.
SubmitAllowedWhileLoading(p) == ~(trim(p.text) = "")

\* if (!text.trim() || loading) return;
SubmitAllowed(p) == ~(trim(p.text) = "" \/ p.loading)

\* The text area changes: setText(e.target.value.slice(0, 10000)).
Typed(txt) ==
  /\ page' = [page EXCEPT !.text = SubSeq(txt, 1, Min(Len(txt), 10000))]
  /\ UNCHANGED << vars, routeVars, metricsVars, running, fillerCall >>

\* handleSubmit runs to its await of fetch, or returns at once.
Submitted ==
  /\ page' = IF SubmitAllowed(page)
               THEN [page EXCEPT !.loading = TRUE, !.error = JNull, !.result = JNull,
                                 !.feedback = JNull, !.copied = FALSE,
                                 !.flights = Append(@, RequestOf(page)),
                                 !.cleared = FALSE]
               ELSE page
  /\ UNCHANGED << vars, routeVars, metricsVars, running, fillerCall >>

\* The response to the oldest fetch arrives and its body is read:
\* handleSubmit resumes, sets error or result, and then loading.
ResponseArrived(outcome) ==
  /\ page.flights # <<>>
  /\ outcome.kind # "failed"
  /\ outcome.kind = "ok" => outcome.data.original = Head(page.flights).text
  /\ page' = [page EXCEPT !.flights = Tail(@), !.loading = FALSE,
                          !.result = IF outcome.kind = "ok" THEN outcome.data ELSE @,
                          !.error = IF outcome.kind = "ok" THEN @
                                    ELSE JStr(ErrorOf(outcome.data))]
  /\ UNCHANGED << vars, routeVars, metricsVars, running, fillerCall >>

\* The oldest fetch fails, or the body of its response is no JSON: the
\* catch block sets error, and then loading is set.
RequestFailed ==
  /\ page.flights # <<>>
  /\ page' = [page EXCEPT !.flights = Tail(@), !.loading = FALSE,
                          !.error = JStr(NETWORK_ERROR_TEXT)]
  /\ UNCHANGED << vars, routeVars, metricsVars, running, fillerCall >>

\* handleClear
Cleared ==
  /\ page' = [page EXCEPT !.text = "", !.result = JNull, !.error = JNull,
                          !.feedback = JNull, !.copied = FALSE, !.cleared = TRUE]
  /\ UNCHANGED << vars, routeVars, metricsVars, running, fillerCall >>

\* One of the feedback buttons, which are shown with a result, is pressed.
FeedbackGiven(v) ==
  /\ page.result # JNull
  /\ page' = [page EXCEPT !.feedback = JStr(v)]
  /\ UNCHANGED << vars, routeVars, metricsVars, running, fillerCall >>

PageNext ==
  \/ \E txt \in PageTexts : Typed(txt)
  \/ Submitted
  \/ \E outcome \in PageOutcomes : ResponseArrived(outcome)
  \/ RequestFailed
  \/ Cleared
  \/ \E v \in {"up", "down"} : FeedbackGiven(v)

PageSpec == Init /\ [][PageNext]_allVars

(***************************************************************************)
(* Properties of the page                                                  *)
(***************************************************************************)

\* C28: result and error are never both set and at most one request of the
\* page is in flight; a submit while loading is true, or with a text that
\* is blank, starts no request.
C28_OneRequestOneOutcome ==
  /\ [](~(page.result # JNull /\ page.error # JNull) /\ Len(page.flights) <= 1)
  /\ [][(page.loading \/ trim(page.text) = "") => Len(page'.flights) <= Len(page.flights)]_page

\* A request is in flight, handleClear has run since it was started, and
\* text has been typed again: a submit now starts no second request.
C28_LoadingAfterClearWithText ==
  /\ page.loading
  /\ Len(page.flights) = 1
  /\ page.cleared
  /\ trim(page.text) # ""
  /\ trim(page.text) # Head(page.flights).text

\* C29: once handleClear has run, result and error stay null until the next
\* request is started, whatever arrives for a request that was in flight.
C29_ClearedStaysCleared ==
  page.cleared => page.result = JNull /\ page.error = JNull

(***************************************************************************)
(* The responses of the route                                              *)
(***************************************************************************)

\* What holds of a request that has been answered.
Answered ==
  /\ response.status \in {200, 400, 401, 500}
  /\ response.status = 200 <=>
       (request \in ConformingBodies /\ pc = "Done" /\ result.returned)
  /\ response.status = 200 => response.body = result
  /\ request \in UnreadableBodies => response.status \in {401, 500}
  /\ pc = "Failed" => response.status \in {401, 500}

\* C30: every request to POST /api/humanize is answered, once; the status
\* is 200, 400, 401 or 500, and it is 200 iff the validation passed and
\* humanize returned a result, which is then the body; a failure inside
\* the handler, that of reading a body that is no JSON included, is
\* answered with 401 or 500.
C30_OneResponse ==
  /\ [](response # NoResponse => Answered)
  /\ [][response = NoResponse]_response
  /\ (request # NoRequest ~> response # NoResponse)

\* A request was answered with 200 and the result of a humanize call that
\* retried.
C30_AnsweredAfterRetry ==
  /\ response.status = 200
  /\ response.body = result
  /\ result.retried
  /\ Len(calls) = 4
  /\ request \in AcceptedBodies

====
